---------------------------- MODULE Spec2Model ----------------------------
(***************************************************************************)
(* repoharvester: the six-stage pipeline of src/repoharvester.go.          *)
(*                                                                         *)
(*   Stage 1  get_repos_from_github   seed URL -> response bodies          *)
(*   Stage 2  parse_github_response   bodies   -> repository records       *)
(*   Stage 3  git_ops_clone           records  -> cloned records           *)
(*   Stage 4  git_ops_shortlog        cloned   -> emails, associations     *)
(*   Stage 5  emails_dedup            emails   -> set                      *)
(*   Stage 6  emails_by_repo          associations -> (email, repo) map    *)
(*                                                                         *)
(* Every goroutine is a process whose position is a pc value; one action   *)
(* is one run of a goroutine from a point where it may block (a channel    *)
(* operation, a semaphore acquire, a WaitGroup wait, a request or a        *)
(* subprocess) to the next such point.                                     *)
(***************************************************************************)
EXTENDS Integers, Sequences, FiniteSets, TLC

(***************************************************************************)
(* Bounds of the model.                                                    *)
(***************************************************************************)
MaxPages == 3
MaxWorkers == 2
MaxQueue == 1
MaxFeed == 3
MaxLines == 2

(***************************************************************************)
(* Program constants.                                                      *)
(***************************************************************************)
ROLE_AUTHOR == 1
ROLE_COMMITTER == 2
GITHUB_FETCH == 0
GITHUB_TOTAL_PAGES == 0
GITHUB_PARSE == 1
REMOTE_REPOS == 1
GIT_OPS_CLONE == 2
LOCAL_REPOS == 2
GIT_OPS_LOG == 3
GIT_IDENTITIES == 3
EMAILS_DEDUP == 4
EMAILS_GROUPED == 5
MaxFetchAttempts == 4
LocalSlots == 2

\* int8 bitwise OR, as Go's | on the two's-complement bits of non-negative
\* values.
RECURSIVE BitOr(_, _)
BitOr(a, b) ==
    IF a = 0 THEN b
    ELSE IF b = 0 THEN a
    ELSE (IF (a % 2 = 1) \/ (b % 2 = 1) THEN 1 ELSE 0)
         + 2 * BitOr(a \div 2, b \div 2)

ROLE_MASK_BOTH == BitOr(ROLE_AUTHOR, ROLE_COMMITTER)

Roles == {ROLE_AUTHOR, ROLE_COMMITTER}

(***************************************************************************)
(* The outside world: the listing endpoint and the git tool.               *)
(*                                                                         *)
(* A listing is a chain of pages; the URL of page p is the number p, and   *)
(* the body of a page is the sequence of the JSON values it holds, each an *)
(* array of repository records.  The pages in malformed carry, after      *)
(* those values, bytes that are not JSON.  The chain starts at the page    *)
(* the seed URL names: page 1 for a URL main builds, any page for a URL    *)
(* given as the target; the text of the URL of page p ends with the page   *)
(* number seed + p - 1.                                                    *)
(***************************************************************************)
RepoIds == 1..5

\* The record the JSON decoder builds for repository i: local_path is not
\* decoded and starts empty.  Repository 2 is large and repository 3 a fork
\* of middle size; the others are small.
Repo(i) ==
    [Name |-> i,
     Clone_url |-> i,
     Size |-> IF i = 2 THEN 3 ELSE IF i = 3 THEN 2 ELSE 1,
     Fork |-> (i = 3),
     local_path |-> <<>>]

\* The zero value of the record type, held where no record has been
\* received yet.
NoRepo ==
    [Name |-> 0, Clone_url |-> 0, Size |-> 0, Fork |-> FALSE,
     local_path |-> <<>>]

\* A body holding one array of the given records.
Body(records) == << records >>

\* A chain of n pages that list no repository.
EmptyChain(n) == [p \in 1..n |-> Body(<<>>)]

\* One page listing two repositories that are not forks.
TwoRepoListing == << Body(<<Repo(1), Repo(2)>>) >>

\* One page listing two repositories without a commit.
BareListing == << Body(<<Repo(4), Repo(5)>>) >>

\* The Link header of page p of n, as the list of its <url>; rel="name"
\* entries; a single page carries no Link header.
LinkHeader(p, n) ==
    IF n = 1 THEN <<>>
    ELSE (IF p > 1 THEN << [url |-> p - 1, rel |-> "prev"] >> ELSE <<>>)
         \o (IF p < n THEN << [url |-> p + 1, rel |-> "next"],
                              [url |-> n, rel |-> "last"] >> ELSE <<>>)
         \o (IF p > 1 THEN << [url |-> 1, rel |-> "first"] >> ELSE <<>>)

\* A line "<count>\t<name> <<email>>" of "git shortlog -s -e", as the
\* sequence of its characters, the email being a sequence of characters
\* too.
ShortlogLine(email) == <<"7", "\t", "n", " ", "<">> \o email \o <<">">>

\* Output lines of the "git shortlog" run of a role in the clone of the
\* repository: repositories 1 and 2 have one author each and no committer
\* line, repository 3 one identity in both roles, and the others have no
\* commit.
History(name, role) ==
    IF name = 1
    THEN (IF role = ROLE_AUTHOR THEN <<ShortlogLine(<<"a">>)>> ELSE <<>>)
    ELSE IF name = 2
    THEN (IF role = ROLE_AUTHOR THEN <<ShortlogLine(<<"b">>)>> ELSE <<>>)
    ELSE IF name = 3 THEN <<ShortlogLine(<<"a">>)>>
    ELSE <<>>

Histories == [k \in RepoIds \X Roles |-> History(k[1], k[2])]

Queues == {"urls", "bodies", "repos", "local_repos", "emails",
           "context_emails"}

VARIABLES
    \* configuration (main) and the listing
    workers, BUFFER_SIZE, fork_filter, size_filter, pages, malformed, seed,
    std_out,
    \* shared
    cancelled, g_semaphore, l_semaphore, panicked,
    active_data, completion_data, total_data, error_data,
    \* channels
    urls, bodies, repos, local_repos, emails, context_emails, closed,
    \* goroutines
    fetcher, decoder, decodeTask, cloner, cloneTask, extractor, extractTask,
    wg,
    \* aggregation and main
    emails_deduped, emails_grouped, done, mainPc, sigPc, log,
    \* the two goroutines that write the output artifacts
    writers

config == <<workers, BUFFER_SIZE, fork_filter, size_filter, pages, malformed,
            seed, std_out>>

numPages == Len(pages)
PageBody(p) == pages[p]

\* The page number the URL of page p ends with.
PageNumber(p) == seed + p - 1

\* std_out of the "git shortlog" run of a role in the clone of the
\* repository, line by line as bufio.Scanner yields it.
ShortlogOutput(name, role) == std_out[<<name, role>>]

counters == <<active_data, completion_data, total_data, error_data>>
chans == <<urls, bodies, repos, local_repos, emails, context_emails, closed>>
procs == <<fetcher, decoder, decodeTask, cloner, cloneTask, extractor,
           extractTask, wg>>
aggs == <<emails_deduped, emails_grouped, done, writers>>
vars == <<config, cancelled, g_semaphore, l_semaphore, panicked, counters,
          chans, procs, aggs, mainPc, sigPc, log>>


(***************************************************************************)
(* Primitives.                                                             *)
(***************************************************************************)
\* atomic.AddUint32 on a counter kept in two's-complement form: a stored
\* value v < 0 stands for the uint32 value v + 2^32, so that adding
\* ^uint32(0) to 0 gives -1, the bit pattern of 4294967295.
AddUint32(counter, i, delta) == [counter EXCEPT ![i] = @ + delta]

\* A send on channel q with buffer buf: it can proceed when the buffer has
\* room, and a send on a closed channel panics instead.
CanSend(q, buf) == Len(buf) < BUFFER_SIZE \/ closed[q] > 0
Sent(q, buf, x) == IF closed[q] > 0 THEN buf ELSE Append(buf, x)

\* close() of the channels in S; closing a closed channel panics.
Close(S) == [q \in Queues |-> IF q \in S THEN closed[q] + 1 ELSE closed[q]]
ClosePanics(S) == \E q \in S : closed[q] > 0

\* g_semaphore.Acquire(ctx, 1) can take a permit while fewer than workers
\* are held.
PermitFree == g_semaphore < workers

\* A local limiter that never runs out of slots.
SlotAlwaysFree == l_semaphore >= 0

\* l_semaphore.TryAcquire(1) succeeds while fewer than its two slots are
\* held.
SlotFree == l_semaphore < LocalSlots

\* A receive that reports "closed" as soon as the channel is closed,
\* whatever is still buffered.
IsClosed(q, buf) == closed[q] > 0

\* A receive on channel q reports "closed" only once the buffer is drained.
IsDrained(q, buf) == buf = <<>> /\ closed[q] > 0

(***************************************************************************)
(* Stage 1: get_repos_from_github.                                         *)
(***************************************************************************)
\* First index of an entry of Link header h with the given rel, or 0.
LinkIndex(h, rel) ==
    LET idx == {i \in 1..Len(h) : h[i].rel = rel}
    IN IF idx = {} THEN 0 ELSE CHOOSE i \in idx : \A j \in idx : i <= j

\* A pagination walk that follows the "last" link instead of the "next"
\* one.
get_last_link(h, next_url) ==
    LET i == LinkIndex(h, "last")
    IN IF i = 0 THEN [ok |-> FALSE, next_url |-> next_url]
       ELSE [ok |-> TRUE, next_url |-> h[i].url]

get_next_link(h, next_url) ==
    LET i == LinkIndex(h, "next")
    IN IF i = 0 THEN [ok |-> FALSE, next_url |-> next_url]
       ELSE [ok |-> TRUE, next_url |-> h[i].url]

\* The page count is read from the last character before the closing
\* bracket of the "last" URL: the last decimal digit of its page number.
get_total_pages(h, total_pages) ==
    IF total_pages > 0 THEN total_pages
    ELSE LET i == LinkIndex(h, "last")
         IN IF i = 0 THEN 1 ELSE PageNumber(h[i].url) % 10

\* The record of a send on bodies: the page of the body and its rank among
\* the bodies sent so far.  The code writes no line here; the record keeps
\* the history of the queue for the properties.
BodiesSent == {e \in log : e[1] = "body"}
BodySent(url) == <<"body", url, Cardinality(BodiesSent) + 1>>

\* The goroutine returns: its deferred calls run (Release when the permit
\* was acquired, then close(bodies), close(urls)).
FetcherReturn(holding) ==
    /\ fetcher' = [fetcher EXCEPT !.pc = "done"]
    /\ g_semaphore' = IF holding THEN g_semaphore - 1 ELSE g_semaphore
    /\ closed' = Close({"bodies", "urls"})
    /\ panicked' = (panicked \/ ClosePanics({"bodies", "urls"}))

FetcherAcquire ==
    /\ fetcher.pc = "acquire"
    /\ PermitFree
    /\ g_semaphore' = g_semaphore + 1
    /\ fetcher' = [fetcher EXCEPT !.pc = "select"]
    /\ UNCHANGED <<config, cancelled, l_semaphore, panicked, counters, chans,
                   decoder, decodeTask, cloner, cloneTask, extractor,
                   extractTask, wg, aggs, mainPc, sigPc, log>>

FetcherAcquireCancelled ==
    /\ fetcher.pc = "acquire"
    /\ cancelled
    /\ FetcherReturn(FALSE)
    /\ UNCHANGED <<config, cancelled, l_semaphore, counters, urls, bodies,
                   repos, local_repos, emails, context_emails,
                   decoder, decodeTask, cloner, cloneTask, extractor,
                   extractTask, wg, aggs, mainPc, sigPc, log>>

\* A receive that reads the head of the work queue and leaves it queued.
FetcherPeekUrl ==
    /\ fetcher.pc = "select"
    /\ urls # <<>>
    /\ active_data' = AddUint32(active_data, GITHUB_FETCH, 1)
    /\ fetcher' = [fetcher EXCEPT !.pc = "request", !.url = Head(urls),
                                  !.fetch_counter = 1]
    /\ UNCHANGED <<config, cancelled, g_semaphore, l_semaphore, panicked,
                   completion_data, total_data, error_data, chans,
                   decoder, decodeTask, cloner, cloneTask, extractor,
                   extractTask, wg, aggs, mainPc, sigPc, log>>

\* case url := <-urls: active++, fetch_counter = 1.
FetcherSelectUrl ==
    /\ fetcher.pc = "select"
    /\ urls # <<>>
    /\ urls' = Tail(urls)
    /\ active_data' = AddUint32(active_data, GITHUB_FETCH, 1)
    /\ fetcher' = [fetcher EXCEPT !.pc = "request", !.url = Head(urls),
                                  !.fetch_counter = 1]
    /\ UNCHANGED <<config, cancelled, g_semaphore, l_semaphore, panicked,
                   completion_data, total_data, error_data, bodies, repos,
                   local_repos, emails, context_emails, closed,
                   decoder, decodeTask, cloner, cloneTask, extractor,
                   extractTask, wg, aggs, mainPc, sigPc, log>>

FetcherSelectCancelled ==
    /\ fetcher.pc = "select"
    /\ cancelled
    /\ FetcherReturn(TRUE)
    /\ UNCHANGED <<config, cancelled, l_semaphore, counters, urls, bodies,
                   repos, local_repos, emails, context_emails,
                   decoder, decodeTask, cloner, cloneTask, extractor,
                   extractTask, wg, aggs, mainPc, sigPc, log>>

\* http.NewRequestWithContext rejects the URL just popped.
FetcherNewRequestError ==
    /\ fetcher.pc = "select"
    /\ urls # <<>>
    /\ urls' = Tail(urls)
    /\ error_data' = AddUint32(error_data, GITHUB_FETCH, 1)
    /\ FetcherReturn(TRUE)
    /\ UNCHANGED <<config, cancelled, l_semaphore, active_data,
                   completion_data, total_data, bodies, repos, local_repos,
                   emails, context_emails,
                   decoder, decodeTask, cloner, cloneTask, extractor,
                   extractTask, wg, aggs, mainPc, sigPc, log>>

\* c.Do returns a response.
FetcherResponse ==
    /\ fetcher.pc = "request"
    /\ ~cancelled
    /\ LET tp == get_total_pages(LinkHeader(fetcher.url, numPages),
                                 fetcher.total_pages)
       IN /\ fetcher' = [fetcher EXCEPT !.pc = "push", !.total_pages = tp]
          /\ total_data' = [total_data EXCEPT ![GITHUB_TOTAL_PAGES] = tp]
    /\ completion_data' = AddUint32(completion_data, GITHUB_FETCH, 1)
    /\ active_data' = AddUint32(active_data, GITHUB_FETCH, -1)
    /\ UNCHANGED <<config, cancelled, g_semaphore, l_semaphore, panicked,
                   error_data, chans,
                   decoder, decodeTask, cloner, cloneTask, extractor,
                   extractTask, wg, aggs, mainPc, sigPc, log>>

\* A retry loop that gives up one failure later.
RetryBudgetOfFive == fetcher.fetch_counter > MaxFetchAttempts

\* if fetch_counter >= 4: the attempt that has just failed was the last.
RetryBudgetSpent == fetcher.fetch_counter >= MaxFetchAttempts

\* c.Do returns an error: retried until the 4th attempt has failed, which
\* is logged as "Error fetching <url>".
RequestFailed ==
    /\ fetcher.pc = "request"
    /\ IF RetryBudgetSpent
       THEN /\ log' = log \cup {<<"fetch_failed", fetcher.url>>}
            /\ error_data' = AddUint32(error_data, GITHUB_FETCH, 1)
            /\ active_data' = AddUint32(active_data, GITHUB_FETCH, -1)
            /\ FetcherReturn(TRUE)
       ELSE /\ fetcher' = [fetcher EXCEPT !.fetch_counter = @ + 1]
            /\ UNCHANGED <<error_data, active_data, g_semaphore, closed,
                           panicked, log>>
    /\ UNCHANGED <<config, cancelled, l_semaphore, completion_data,
                   total_data, urls, bodies, repos, local_repos, emails,
                   context_emails,
                   decoder, decodeTask, cloner, cloneTask, extractor,
                   extractTask, wg, aggs, mainPc, sigPc>>

FetcherRequestError == ~cancelled /\ RequestFailed

FetcherRequestCancelled == cancelled /\ RequestFailed

FetcherPushBody ==
    /\ fetcher.pc = "push"
    /\ CanSend("bodies", bodies)
    /\ bodies' = Sent("bodies", bodies, fetcher.url)
    /\ log' = IF closed["bodies"] > 0 THEN log
              ELSE log \cup {BodySent(fetcher.url)}
    /\ LET nl == get_next_link(LinkHeader(fetcher.url, numPages),
                                fetcher.next_url)
       IN IF closed["bodies"] > 0
          THEN /\ panicked' = TRUE
               /\ UNCHANGED <<fetcher, g_semaphore, closed>>
          ELSE IF nl.ok
          THEN /\ fetcher' = [fetcher EXCEPT !.pc = "sendurl",
                                             !.next_url = nl.next_url]
               /\ UNCHANGED <<g_semaphore, closed, panicked>>
          ELSE FetcherReturn(TRUE)
    /\ UNCHANGED <<config, cancelled, l_semaphore, counters, urls, repos,
                   local_repos, emails, context_emails,
                   decoder, decodeTask, cloner, cloneTask, extractor,
                   extractTask, wg, aggs, mainPc, sigPc>>

\* A push written as a plain send, with no case for ctx.Done(): it never
\* gives up.
FetcherPushUnraced == fetcher.pc = "push" /\ FALSE /\ UNCHANGED vars

FetcherPushCancelled ==
    /\ fetcher.pc = "push"
    /\ cancelled
    /\ FetcherReturn(TRUE)
    /\ UNCHANGED <<config, cancelled, l_semaphore, counters, urls, bodies,
                   repos, local_repos, emails, context_emails,
                   decoder, decodeTask, cloner, cloneTask, extractor,
                   extractTask, wg, aggs, mainPc, sigPc, log>>

\* urls <- next_url: a plain send, not raced against the context.
FetcherSendUrl ==
    /\ fetcher.pc = "sendurl"
    /\ CanSend("urls", urls)
    /\ urls' = Sent("urls", urls, fetcher.next_url)
    /\ panicked' = (panicked \/ closed["urls"] > 0)
    /\ fetcher' = [fetcher EXCEPT !.pc = "select"]
    /\ UNCHANGED <<config, cancelled, g_semaphore, l_semaphore, counters,
                   bodies, repos, local_repos, emails, context_emails, closed,
                   decoder, decodeTask, cloner, cloneTask, extractor,
                   extractTask, wg, aggs, mainPc, sigPc, log>>

(***************************************************************************)
(* Stage 2: parse_github_response.                                         *)
(***************************************************************************)
\* A faulty join that returns while tasks are still running; the ordering
\* of close after join depends on the join not being this one.
WaitReturnsEarly(stage) == wg[stage] >= 0

\* wg.Wait() returns once every task added to the stage's WaitGroup is done.
WaitReturns(stage) == wg[stage] = 0

\* A forwarding loop that skips no record.
ForkFilterOff(repo) == repo.Fork /\ ~repo.Fork

\* The fork filter of the forwarding loop.
ForkFiltered(repo) == repo.Fork /\ fork_filter

\* Position of the first record of array r at or after i that the fork
\* filter lets through (Len(r) + 1 when there is none).
RECURSIVE SkipForks(_, _)
SkipForks(r, i) ==
    IF i > Len(r) THEN i
    ELSE IF ForkFiltered(r[i]) THEN SkipForks(r, i + 1)
    ELSE i

\* The records the filter drops between positions i and j - 1 of r, as the
\* debug lines "Skipping <name> based on the fork filter".
ForkSkipLines(r, i, j) == {<<"fork_skip", r[k].Name>> : k \in i..(j - 1)}

\* The driver leaves its loop: wg.Wait(), then close of the output, then
\* return.  A WaitGroup with no task outstanding does not block.
DecoderJoin ==
    IF WaitReturns("parse")
    THEN /\ closed' = Close({"repos"})
         /\ panicked' = (panicked \/ ClosePanics({"repos"}))
         /\ decoder' = [decoder EXCEPT !.pc = "done"]
    ELSE /\ decoder' = [decoder EXCEPT !.pc = "wait"]
         /\ UNCHANGED <<closed, panicked>>

DecoderRecv ==
    /\ decoder.pc = "select"
    /\ bodies # <<>>
    /\ bodies' = Tail(bodies)
    /\ decoder' = [pc |-> "acquire", body |-> Head(bodies)]
    /\ UNCHANGED <<config, cancelled, g_semaphore, l_semaphore, panicked,
                   counters, urls, repos, local_repos, emails, context_emails,
                   closed, fetcher, decodeTask, cloner, cloneTask, extractor,
                   extractTask, wg, aggs, mainPc, sigPc, log>>

DecoderInputClosed ==
    /\ decoder.pc = "select"
    /\ IsDrained("bodies", bodies)
    /\ DecoderJoin
    /\ UNCHANGED <<config, cancelled, g_semaphore, l_semaphore, counters,
                   urls, bodies, repos, local_repos, emails,
                   context_emails, fetcher, decodeTask, cloner, cloneTask,
                   extractor, extractTask, wg, aggs, mainPc, sigPc, log>>

DecoderCancelled ==
    /\ decoder.pc = "select"
    /\ cancelled
    /\ DecoderJoin
    /\ UNCHANGED <<config, cancelled, g_semaphore, l_semaphore, counters,
                   urls, bodies, repos, local_repos, emails,
                   context_emails, fetcher, decodeTask, cloner, cloneTask,
                   extractor, extractTask, wg, aggs, mainPc, sigPc, log>>

DecoderAcquire ==
    /\ decoder.pc = "acquire"
    /\ PermitFree
    /\ g_semaphore' = g_semaphore + 1
    /\ wg' = [wg EXCEPT !.parse = @ + 1]
    /\ active_data' = AddUint32(active_data, GITHUB_PARSE, 1)
    /\ decodeTask' = [decodeTask EXCEPT
                        ![decoder.body] = [st |-> "decode", v |-> 0, i |-> 0]]
    /\ decoder' = [pc |-> "select", body |-> 0]
    /\ UNCHANGED <<config, cancelled, l_semaphore, panicked, completion_data,
                   total_data, error_data, chans, fetcher, cloner, cloneTask,
                   extractor, extractTask, aggs, mainPc, sigPc, log>>

DecoderAcquireCancelled ==
    /\ decoder.pc = "acquire"
    /\ cancelled
    /\ DecoderJoin
    /\ UNCHANGED <<config, cancelled, g_semaphore, l_semaphore, counters,
                   urls, bodies, repos, local_repos, emails,
                   context_emails, fetcher, decodeTask, cloner, cloneTask,
                   extractor, extractTask, wg, aggs, mainPc, sigPc, log>>

\* wg.Wait(); close(repos); return.
DecoderClose ==
    /\ decoder.pc = "wait"
    /\ WaitReturns("parse")
    /\ closed' = Close({"repos"})
    /\ panicked' = (panicked \/ ClosePanics({"repos"}))
    /\ decoder' = [decoder EXCEPT !.pc = "done"]
    /\ UNCHANGED <<config, cancelled, g_semaphore, l_semaphore, counters,
                   urls, bodies, repos, local_repos, emails, context_emails,
                   fetcher, decodeTask, cloner, cloneTask, extractor,
                   extractTask, wg, aggs, mainPc, sigPc, log>>

\* A decode task returns: defer g_semaphore.Release(1), defer wg.Done().
DecodeTaskExit(p) ==
    /\ decodeTask' = [decodeTask EXCEPT ![p].st = "done"]
    /\ g_semaphore' = g_semaphore - 1
    /\ wg' = [wg EXCEPT !.parse = @ - 1]

\* The task of page p, having array number v of the body in hand, moves to
\* the first record at or after position i that is to be sent; past the end
\* of the array it counts the value as completed and decodes again.
DecodeTaskAdvance(p, v, i) ==
    LET r == PageBody(p)[v]
        j == SkipForks(r, i)
    IN /\ log' = log \cup ForkSkipLines(r, i, j)
       /\ IF j <= Len(r)
          THEN /\ decodeTask' = [decodeTask EXCEPT
                                   ![p] = [st |-> "fwd", v |-> v, i |-> j]]
               /\ UNCHANGED <<completion_data, active_data>>
          ELSE /\ decodeTask' = [decodeTask EXCEPT
                                   ![p] = [st |-> "decode", v |-> v, i |-> 0]]
               /\ completion_data' =
                      AddUint32(completion_data, GITHUB_PARSE, 1)
               /\ active_data' = AddUint32(active_data, GITHUB_PARSE, -1)

\* An error branch that forgets the error counter.
DecodeFailedUncounted(p) ==
    /\ decodeTask[p].st = "decode"
    /\ log' = log \cup {<<"parse_error", p>>}
    /\ active_data' = AddUint32(active_data, GITHUB_PARSE, -1)
    /\ DecodeTaskExit(p)
    /\ UNCHANGED <<config, cancelled, l_semaphore, panicked, completion_data,
                   total_data, error_data, chans, fetcher, decoder, cloner,
                   cloneTask, extractor, extractTask, aggs, mainPc, sigPc>>

\* The bodies whose decode failed, by the error lines written.
ParseErrors == {p \in 1..MaxPages : <<"parse_error", p>> \in log}

\* dec.Decode(&r) returns an error other than io.EOF, logged as "Error
\* parsing body": errors++, active--, return.
DecodeFailed(p) ==
    /\ decodeTask[p].st = "decode"
    /\ log' = log \cup {<<"parse_error", p>>}
    /\ error_data' = AddUint32(error_data, GITHUB_PARSE, 1)
    /\ active_data' = AddUint32(active_data, GITHUB_PARSE, -1)
    /\ DecodeTaskExit(p)
    /\ UNCHANGED <<config, cancelled, l_semaphore, panicked, completion_data,
                   total_data, chans, fetcher, decoder, cloner, cloneTask,
                   extractor, extractTask, aggs, mainPc, sigPc>>

\* dec.Decode(&r): the next JSON value of the body, or io.EOF.
DecodeValue(p) ==
    /\ decodeTask[p].st = "decode"
    /\ decodeTask[p].v = Len(PageBody(p)) => p \notin malformed
    /\ IF decodeTask[p].v = Len(PageBody(p))
       THEN /\ DecodeTaskExit(p)
            /\ UNCHANGED <<completion_data, active_data, log>>
       ELSE /\ DecodeTaskAdvance(p, decodeTask[p].v + 1, 1)
            /\ UNCHANGED <<g_semaphore, wg>>
    /\ UNCHANGED <<config, cancelled, l_semaphore, panicked, total_data,
                   error_data, chans, fetcher, decoder, cloner, cloneTask,
                   extractor, extractTask, aggs, mainPc, sigPc>>

\* dec.Decode(&r) fails because the read of the body is cut by the context.
DecodeCancelled(p) == cancelled /\ DecodeFailed(p)

\* dec.Decode(&r) meets the bytes that are not JSON, past the values of the
\* body.
DecodeMalformed(p) ==
    /\ p \in malformed
    /\ decodeTask[p].st = "decode"
    /\ decodeTask[p].v = Len(PageBody(p))
    /\ DecodeFailed(p)

\* select: repos <- repo.
ForwardRepo(p) ==
    /\ decodeTask[p].st = "fwd"
    /\ CanSend("repos", repos)
    /\ repos' = Sent("repos", repos,
                     PageBody(p)[decodeTask[p].v][decodeTask[p].i])
    /\ panicked' = (panicked \/ closed["repos"] > 0)
    /\ decodeTask' = [decodeTask EXCEPT ![p].st = "sent"]
    /\ UNCHANGED <<config, cancelled, g_semaphore, l_semaphore, counters,
                   urls, bodies, local_repos, emails, context_emails, closed,
                   fetcher, decoder, cloner, cloneTask, extractor,
                   extractTask, wg, aggs, mainPc, sigPc, log>>

\* select: <-ctx.Done(): return.
ForwardCancelled(p) ==
    /\ decodeTask[p].st = "fwd"
    /\ cancelled
    /\ DecodeTaskExit(p)
    /\ UNCHANGED <<config, cancelled, l_semaphore, panicked, counters, chans,
                   fetcher, decoder, cloner, cloneTask, extractor,
                   extractTask, aggs, mainPc, sigPc, log>>

\* A forwarding loop that goes to the next record without counting the one
\* it has sent.
CountRepoSkipped(p) ==
    /\ decodeTask[p].st = "sent"
    /\ UNCHANGED total_data
    /\ DecodeTaskAdvance(p, decodeTask[p].v, decodeTask[p].i + 1)
    /\ UNCHANGED <<config, cancelled, g_semaphore, l_semaphore, panicked,
                   error_data, chans, fetcher, decoder, cloner, cloneTask,
                   extractor, extractTask, wg, aggs, mainPc, sigPc>>

\* After the send: total_data[REMOTE_REPOS]++, then the next record.
CountRepo(p) ==
    /\ decodeTask[p].st = "sent"
    /\ total_data' = AddUint32(total_data, REMOTE_REPOS, 1)
    /\ DecodeTaskAdvance(p, decodeTask[p].v, decodeTask[p].i + 1)
    /\ UNCHANGED <<config, cancelled, g_semaphore, l_semaphore, panicked,
                   error_data, chans, fetcher, decoder, cloner, cloneTask,
                   extractor, extractTask, wg, aggs, mainPc, sigPc>>

(***************************************************************************)
(* Stage 3: git_ops_clone.                                                 *)
(***************************************************************************)
\* A size filter that also drops a record whose size equals the threshold.
SizeFilteredAtThreshold(repo) == size_filter > 0 /\ repo.Size >= size_filter

\* The size filter of the receive loop.
SizeFiltered(repo) == size_filter > 0 /\ repo.Size > size_filter

\* A skip that leaves the completed counter of the stage alone.
SizeSkipUncounted == completion_data

\* What the skip does to the counters: completion_data[GIT_OPS_CLONE]++.
SizeSkipCounted == AddUint32(completion_data, GIT_OPS_CLONE, 1)

\* filepath.Join(*working_dir, repo.Name)
LocalPath(repo) == <<"working_dir", repo.Name>>

\* The driver leaves its loop: wg.Wait(), then close of the output, then
\* return.  A WaitGroup with no task outstanding does not block.
ClonerJoin ==
    IF WaitReturns("clone")
    THEN /\ closed' = Close({"local_repos"})
         /\ panicked' = (panicked \/ ClosePanics({"local_repos"}))
         /\ cloner' = [cloner EXCEPT !.pc = "done"]
    ELSE /\ cloner' = [cloner EXCEPT !.pc = "wait"]
         /\ UNCHANGED <<closed, panicked>>

ClonerRecv ==
    /\ cloner.pc = "select"
    /\ repos # <<>>
    /\ repos' = Tail(repos)
    /\ IF SizeFiltered(Head(repos))
       THEN /\ completion_data' = SizeSkipCounted
            /\ log' = log \cup {<<"size_skip", Head(repos).Name>>}
            /\ UNCHANGED cloner
       ELSE /\ cloner' = [pc |-> "acquire", repo |-> Head(repos)]
            /\ UNCHANGED <<completion_data, log>>
    /\ UNCHANGED <<config, cancelled, g_semaphore, l_semaphore, panicked,
                   active_data, total_data, error_data, urls, bodies,
                   local_repos, emails, context_emails, closed, fetcher,
                   decoder, decodeTask, cloneTask, extractor, extractTask, wg,
                   aggs, mainPc, sigPc>>

ClonerInputClosed ==
    /\ cloner.pc = "select"
    /\ IsDrained("repos", repos)
    /\ ClonerJoin
    /\ UNCHANGED <<config, cancelled, g_semaphore, l_semaphore, counters,
                   urls, bodies, repos, local_repos, emails,
                   context_emails, fetcher, decoder, decodeTask, cloneTask,
                   extractor, extractTask, wg, aggs, mainPc, sigPc, log>>

ClonerCancelled ==
    /\ cloner.pc = "select"
    /\ cancelled
    /\ ClonerJoin
    /\ UNCHANGED <<config, cancelled, g_semaphore, l_semaphore, counters,
                   urls, bodies, repos, local_repos, emails,
                   context_emails, fetcher, decoder, decodeTask, cloneTask,
                   extractor, extractTask, wg, aggs, mainPc, sigPc, log>>

ClonerAcquire ==
    /\ cloner.pc = "acquire"
    /\ PermitFree
    /\ g_semaphore' = g_semaphore + 1
    /\ wg' = [wg EXCEPT !.clone = @ + 1]
    /\ active_data' = AddUint32(active_data, GIT_OPS_CLONE, 1)
    /\ cloneTask' = [cloneTask EXCEPT
                       ![cloner.repo.Name] = [st |-> "run",
                                              repo |-> cloner.repo]]
    /\ cloner' = [pc |-> "select", repo |-> NoRepo]
    /\ UNCHANGED <<config, cancelled, l_semaphore, panicked, completion_data,
                   total_data, error_data, chans, fetcher, decoder,
                   decodeTask, extractor, extractTask, aggs, mainPc, sigPc,
                   log>>

ClonerAcquireCancelled ==
    /\ cloner.pc = "acquire"
    /\ cancelled
    /\ ClonerJoin
    /\ UNCHANGED <<config, cancelled, g_semaphore, l_semaphore, counters,
                   urls, bodies, repos, local_repos, emails,
                   context_emails, fetcher, decoder, decodeTask, cloneTask,
                   extractor, extractTask, wg, aggs, mainPc, sigPc, log>>

\* wg.Wait(); close(local_repos); return.
ClonerClose ==
    /\ cloner.pc = "wait"
    /\ WaitReturns("clone")
    /\ closed' = Close({"local_repos"})
    /\ panicked' = (panicked \/ ClosePanics({"local_repos"}))
    /\ cloner' = [cloner EXCEPT !.pc = "done"]
    /\ UNCHANGED <<config, cancelled, g_semaphore, l_semaphore, counters,
                   urls, bodies, repos, local_repos, emails, context_emails,
                   fetcher, decoder, decodeTask, cloneTask, extractor,
                   extractTask, wg, aggs, mainPc, sigPc, log>>

\* A return that leaves the group without giving the permit back.
CloneTaskExitKeepsPermit(n) ==
    /\ cloneTask' = [cloneTask EXCEPT ![n].st = "done"]
    /\ UNCHANGED g_semaphore
    /\ wg' = [wg EXCEPT !.clone = @ - 1]

\* A clone task returns: defer g_semaphore.Release(1), defer wg.Done().
CloneTaskExit(n) ==
    /\ cloneTask' = [cloneTask EXCEPT ![n].st = "done"]
    /\ g_semaphore' = g_semaphore - 1
    /\ wg' = [wg EXCEPT !.clone = @ - 1]

\* cmd.Run() returns nil: the local path is attached.
CloneRunOK(n) ==
    /\ cloneTask[n].st = "run"
    /\ ~cancelled
    /\ cloneTask' = [cloneTask EXCEPT
                       ![n].st = "push",
                       ![n].repo.local_path = LocalPath(cloneTask[n].repo)]
    /\ UNCHANGED <<config, cancelled, g_semaphore, l_semaphore, panicked,
                   counters, chans, fetcher, decoder, decodeTask, cloner,
                   extractor, extractTask, wg, aggs, mainPc, sigPc, log>>

\* A failure branch without its return: the error is counted and the task
\* goes on to send the record.
CloneFailedForwards(n) ==
    /\ cloneTask[n].st = "run"
    /\ log' = log \cup {<<"clone_failed", n>>}
    /\ error_data' = AddUint32(error_data, GIT_OPS_CLONE, 1)
    /\ cloneTask' = [cloneTask EXCEPT
                       ![n].st = "push",
                       ![n].repo.local_path = LocalPath(cloneTask[n].repo)]
    /\ UNCHANGED <<config, cancelled, g_semaphore, l_semaphore, panicked,
                   active_data, completion_data, total_data, chans, fetcher,
                   decoder, decodeTask, cloner, extractor, extractTask, wg,
                   aggs, mainPc, sigPc>>

\* The records whose clone failed, by the error lines written.
CloneFailures == {n \in RepoIds : <<"clone_failed", n>> \in log}

\* cmd.Run() returns an error (every branch of the switch logs a line, sets
\* the local path of the task's copy of the record, counts the error and
\* returns): the record is dropped.
CloneFailed(n) ==
    /\ cloneTask[n].st = "run"
    /\ log' = log \cup {<<"clone_failed", n>>}
    /\ error_data' = AddUint32(error_data, GIT_OPS_CLONE, 1)
    /\ active_data' = AddUint32(active_data, GIT_OPS_CLONE, -1)
    /\ cloneTask' = [cloneTask EXCEPT
                       ![n].st = "done",
                       ![n].repo.local_path = LocalPath(cloneTask[n].repo)]
    /\ g_semaphore' = g_semaphore - 1
    /\ wg' = [wg EXCEPT !.clone = @ - 1]
    /\ UNCHANGED <<config, cancelled, l_semaphore, panicked, completion_data,
                   total_data, chans, fetcher, decoder, decodeTask, cloner,
                   extractor, extractTask, aggs, mainPc, sigPc>>

CloneRunError(n) == ~cancelled /\ CloneFailed(n)

CloneKilled(n) == cancelled /\ CloneFailed(n)

\* select: local_repos <- repo.
ClonePush(n) ==
    /\ cloneTask[n].st = "push"
    /\ CanSend("local_repos", local_repos)
    /\ local_repos' = Sent("local_repos", local_repos, cloneTask[n].repo)
    /\ panicked' = (panicked \/ closed["local_repos"] > 0)
    /\ cloneTask' = [cloneTask EXCEPT ![n].st = "sent"]
    /\ UNCHANGED <<config, cancelled, g_semaphore, l_semaphore, counters,
                   urls, bodies, repos, emails, context_emails, closed,
                   fetcher, decoder, decodeTask, cloner, extractor,
                   extractTask, wg, aggs, mainPc, sigPc, log>>

\* select: <-ctx.Done(): return.
ClonePushCancelled(n) ==
    /\ cloneTask[n].st = "push"
    /\ cancelled
    /\ CloneTaskExit(n)
    /\ UNCHANGED <<config, cancelled, l_semaphore, panicked, counters, chans,
                   fetcher, decoder, decodeTask, cloner, extractor,
                   extractTask, aggs, mainPc, sigPc, log>>

\* A count that adds one extraction unit per forwarded record.
CloneCountsOneUnit(n) ==
    /\ cloneTask[n].st = "sent"
    /\ total_data' = AddUint32(total_data, LOCAL_REPOS, 1)
    /\ completion_data' = AddUint32(completion_data, GIT_OPS_CLONE, 1)
    /\ active_data' = AddUint32(active_data, GIT_OPS_CLONE, -1)
    /\ CloneTaskExit(n)
    /\ UNCHANGED <<config, cancelled, l_semaphore, panicked, error_data,
                   chans, fetcher, decoder, decodeTask, cloner, extractor,
                   extractTask, aggs, mainPc, sigPc, log>>

\* After the send: total_data[LOCAL_REPOS] += 2, completed++, active--.
CloneCount(n) ==
    /\ cloneTask[n].st = "sent"
    /\ total_data' = AddUint32(total_data, LOCAL_REPOS, 2)
    /\ completion_data' = AddUint32(completion_data, GIT_OPS_CLONE, 1)
    /\ active_data' = AddUint32(active_data, GIT_OPS_CLONE, -1)
    /\ CloneTaskExit(n)
    /\ UNCHANGED <<config, cancelled, l_semaphore, panicked, error_data,
                   chans, fetcher, decoder, decodeTask, cloner, extractor,
                   extractTask, aggs, mainPc, sigPc, log>>

(***************************************************************************)
(* Stage 4: git_ops_shortlog.                                              *)
(***************************************************************************)
\* strings.LastIndex(line, c): 0-based, -1 when c does not occur.
LastIndex(line, c) ==
    LET idx == {i \in 1..Len(line) : line[i] = c}
    IN IF idx = {} THEN -1
       ELSE (CHOOSE i \in idx : \A j \in idx : j <= i) - 1

\* full_author[LastIndex(full_author, "<")+1 : len(full_author)-1]: the
\* slice expression panics when its bounds are out of order.
SliceInRange(line) == LastIndex(line, "<") + 1 <= Len(line) - 1
\* A slice that starts at the bracket instead of after it.
ExtractEmailFromBracket(line) ==
    SubSeq(line, LastIndex(line, "<") + 1, Len(line) - 1)

ExtractEmail(line) == SubSeq(line, LastIndex(line, "<") + 2, Len(line) - 1)

\* The driver leaves its loop: wg.Wait(), then close of the output, then
\* return.  A WaitGroup with no task outstanding does not block.
ExtractorJoin ==
    IF WaitReturns("shortlog")
    THEN /\ closed' = Close({"emails", "context_emails"})
         /\ panicked' = (panicked \/ ClosePanics({"emails", "context_emails"}))
         /\ extractor' = [extractor EXCEPT !.pc = "done"]
    ELSE /\ extractor' = [extractor EXCEPT !.pc = "wait"]
         /\ UNCHANGED <<closed, panicked>>

ExtractorRecv ==
    /\ extractor.pc = "select"
    /\ local_repos # <<>>
    /\ local_repos' = Tail(local_repos)
    /\ extractor' = [pc |-> "range", repo |-> Head(local_repos),
                     todo |-> Roles, role |-> 0]
    /\ UNCHANGED <<config, cancelled, g_semaphore, l_semaphore, panicked,
                   counters, urls, bodies, repos, emails, context_emails,
                   closed, fetcher, decoder, decodeTask, cloner, cloneTask,
                   extractTask, wg, aggs, mainPc, sigPc, log>>

ExtractorInputClosed ==
    /\ extractor.pc = "select"
    /\ IsDrained("local_repos", local_repos)
    /\ ExtractorJoin
    /\ UNCHANGED <<config, cancelled, g_semaphore, l_semaphore, counters,
                   urls, bodies, repos, local_repos, emails,
                   context_emails, fetcher, decoder, decodeTask, cloner,
                   cloneTask, extractTask, wg, aggs, mainPc, sigPc, log>>

ExtractorCancelled ==
    /\ extractor.pc = "select"
    /\ cancelled
    /\ ExtractorJoin
    /\ UNCHANGED <<config, cancelled, g_semaphore, l_semaphore, counters,
                   urls, bodies, repos, local_repos, emails,
                   context_emails, fetcher, decoder, decodeTask, cloner,
                   cloneTask, extractTask, wg, aggs, mainPc, sigPc, log>>

\* wg.Add(1); active++; go func(params, role, sem): the extraction of one
\* role of the repository in hand starts, holding a permit of sem.
ExtractorSpawn(role, sem) ==
    /\ wg' = [wg EXCEPT !.shortlog = @ + 1]
    /\ active_data' = AddUint32(active_data, GIT_OPS_LOG, 1)
    /\ extractTask' = [extractTask EXCEPT
                         ![<<extractor.repo.Name, role>>] =
                             [st |-> "run", li |-> 0, sem |-> sem]]
    /\ extractor' = IF extractor.todo = {role}
                    THEN [pc |-> "select", repo |-> NoRepo, todo |-> {},
                          role |-> 0]
                    ELSE [extractor EXCEPT !.pc = "range",
                                           !.todo = @ \ {role},
                                           !.role = 0]

\* One iteration of the range over params_containers (a map: the order of
\* the two roles is not fixed): l_semaphore.TryAcquire(1), and on failure
\* the driver goes on to g_semaphore.Acquire.
ExtractorTryAcquire(role) ==
    /\ extractor.pc = "range"
    /\ role \in extractor.todo
    /\ IF SlotFree
       THEN /\ l_semaphore' = l_semaphore + 1
            /\ ExtractorSpawn(role, "l")
       ELSE /\ extractor' = [extractor EXCEPT !.pc = "acquire",
                                              !.role = role]
            /\ UNCHANGED <<l_semaphore, wg, active_data, extractTask>>
    /\ UNCHANGED <<config, cancelled, g_semaphore, panicked, completion_data,
                   total_data, error_data, chans, fetcher, decoder,
                   decodeTask, cloner, cloneTask, aggs, mainPc, sigPc, log>>

ExtractorAcquire ==
    /\ extractor.pc = "acquire"
    /\ PermitFree
    /\ g_semaphore' = g_semaphore + 1
    /\ ExtractorSpawn(extractor.role, "g")
    /\ UNCHANGED <<config, cancelled, l_semaphore, panicked, completion_data,
                   total_data, error_data, chans, fetcher, decoder,
                   decodeTask, cloner, cloneTask, aggs, mainPc, sigPc, log>>

ExtractorAcquireCancelled ==
    /\ extractor.pc = "acquire"
    /\ cancelled
    /\ ExtractorJoin
    /\ UNCHANGED <<config, cancelled, g_semaphore, l_semaphore, counters,
                   urls, bodies, repos, local_repos, emails,
                   context_emails, fetcher, decoder, decodeTask, cloner,
                   cloneTask, extractTask, wg, aggs, mainPc, sigPc, log>>

\* wg.Wait(); close(emails); close(context_emails); return.
ExtractorClose ==
    /\ extractor.pc = "wait"
    /\ WaitReturns("shortlog")
    /\ closed' = Close({"emails", "context_emails"})
    /\ panicked' = (panicked \/ ClosePanics({"emails", "context_emails"}))
    /\ extractor' = [extractor EXCEPT !.pc = "done"]
    /\ UNCHANGED <<config, cancelled, g_semaphore, l_semaphore, counters,
                   urls, bodies, repos, local_repos, emails, context_emails,
                   fetcher, decoder, decodeTask, cloner, cloneTask,
                   extractTask, wg, aggs, mainPc, sigPc, log>>

\* A return that releases to the shared semaphore whatever limiter the
\* task was handed.
ExtractTaskExitShared(k) ==
    /\ extractTask' = [extractTask EXCEPT ![k].st = "done"]
    /\ g_semaphore' = g_semaphore - 1
    /\ UNCHANGED l_semaphore
    /\ wg' = [wg EXCEPT !.shortlog = @ - 1]

\* An extraction task returns: defer sem.Release(1), defer wg.Done(), on
\* the semaphore it was handed.
ExtractTaskExit(k) ==
    /\ extractTask' = [extractTask EXCEPT ![k].st = "done"]
    /\ IF extractTask[k].sem = "l"
       THEN l_semaphore' = l_semaphore - 1 /\ UNCHANGED g_semaphore
       ELSE g_semaphore' = g_semaphore - 1 /\ UNCHANGED l_semaphore
    /\ wg' = [wg EXCEPT !.shortlog = @ - 1]

\* The scan loop is over: completed++, active--, return.
ExtractTaskComplete(k) ==
    /\ completion_data' = AddUint32(completion_data, GIT_OPS_LOG, 1)
    /\ active_data' = AddUint32(active_data, GIT_OPS_LOG, -1)
    /\ ExtractTaskExit(k)

\* cmd.Run() returns nil and the scan of its output starts.
ShortlogRunOK(k) ==
    /\ extractTask[k].st = "run"
    /\ ~cancelled
    /\ IF ShortlogOutput(k[1], k[2]) = <<>>
       THEN ExtractTaskComplete(k)
       ELSE /\ extractTask' = [extractTask EXCEPT ![k].st = "email",
                                                  ![k].li = 1]
            /\ UNCHANGED <<completion_data, active_data, g_semaphore,
                           l_semaphore, wg>>
    /\ UNCHANGED <<config, cancelled, panicked, total_data, error_data,
                   chans, fetcher, decoder, decodeTask, cloner, cloneTask,
                   extractor, aggs, mainPc, sigPc, log>>

\* A failure branch without its return: the error is counted and the task
\* goes on to scan what the subprocess printed.
ShortlogFailedScans(k) ==
    /\ extractTask[k].st = "run"
    /\ log' = log \cup {<<"shortlog_failed", k[1], k[2]>>}
    /\ error_data' = AddUint32(error_data, GIT_OPS_LOG, 1)
    /\ IF ShortlogOutput(k[1], k[2]) = <<>>
       THEN /\ completion_data' = AddUint32(completion_data, GIT_OPS_LOG, 1)
            /\ active_data' = AddUint32(active_data, GIT_OPS_LOG, -1)
            /\ extractTask' = [extractTask EXCEPT ![k].st = "done"]
            /\ IF extractTask[k].sem = "l"
               THEN l_semaphore' = l_semaphore - 1 /\ UNCHANGED g_semaphore
               ELSE g_semaphore' = g_semaphore - 1 /\ UNCHANGED l_semaphore
            /\ wg' = [wg EXCEPT !.shortlog = @ - 1]
       ELSE /\ extractTask' = [extractTask EXCEPT ![k].st = "email",
                                                  ![k].li = 1]
            /\ UNCHANGED <<completion_data, active_data, g_semaphore,
                           l_semaphore, wg>>
    /\ UNCHANGED <<config, cancelled, panicked, total_data, chans, fetcher,
                   decoder, decodeTask, cloner, cloneTask, extractor, aggs,
                   mainPc, sigPc>>

\* The invocations that failed, by the error lines written.
ShortlogFailures ==
    {k \in RepoIds \X Roles : <<"shortlog_failed", k[1], k[2]>> \in log}

\* cmd.Run() returns an error (every branch of the switch logs a line and
\* does the same to the state).
ShortlogFailed(k) ==
    /\ extractTask[k].st = "run"
    /\ log' = log \cup {<<"shortlog_failed", k[1], k[2]>>}
    /\ error_data' = AddUint32(error_data, GIT_OPS_LOG, 1)
    /\ active_data' = AddUint32(active_data, GIT_OPS_LOG, -1)
    /\ ExtractTaskExit(k)
    /\ UNCHANGED <<config, cancelled, panicked, completion_data, total_data,
                   chans, fetcher, decoder, decodeTask, cloner, cloneTask,
                   extractor, aggs, mainPc, sigPc>>

ShortlogRunError(k) == ~cancelled /\ ShortlogFailed(k)

ShortlogKilled(k) == cancelled /\ ShortlogFailed(k)

\* The line the task is at.
CurrentLine(k) == ShortlogOutput(k[1], k[2])[extractTask[k].li]

\* A scan that goes on to the association without sending the email.
PushEmailSkipped(k) ==
    /\ extractTask[k].st = "email"
    /\ extractTask' = [extractTask EXCEPT ![k].st = "context"]
    /\ UNCHANGED <<config, cancelled, g_semaphore, l_semaphore, panicked,
                   counters, chans, fetcher, decoder, decodeTask, cloner,
                   cloneTask, extractor, wg, aggs, mainPc, sigPc, log>>

\* select: emails <- email.
PushEmail(k) ==
    /\ extractTask[k].st = "email"
    /\ IF ~SliceInRange(CurrentLine(k))
       THEN /\ panicked' = TRUE
            /\ UNCHANGED <<emails, extractTask>>
       ELSE /\ CanSend("emails", emails)
            /\ emails' = Sent("emails", emails, ExtractEmail(CurrentLine(k)))
            /\ panicked' = (panicked \/ closed["emails"] > 0)
            /\ extractTask' = [extractTask EXCEPT ![k].st = "context"]
    /\ UNCHANGED <<config, cancelled, g_semaphore, l_semaphore, counters,
                   urls, bodies, repos, local_repos, context_emails, closed,
                   fetcher, decoder, decodeTask, cloner, cloneTask, extractor,
                   wg, aggs, mainPc, sigPc, log>>

\* select: context_emails <- EmailContext{&repo, email, role}; the pointer
\* to the driver's record is identified by the record's name.
PushContext(k) ==
    /\ extractTask[k].st = "context"
    /\ CanSend("context_emails", context_emails)
    /\ context_emails' =
           Sent("context_emails", context_emails,
                [Repo |-> k[1],
                 EmailAddress |-> ExtractEmail(CurrentLine(k)),
                 Role |-> k[2]])
    /\ panicked' = (panicked \/ closed["context_emails"] > 0)
    /\ extractTask' = [extractTask EXCEPT ![k].st = "count"]
    /\ UNCHANGED <<config, cancelled, g_semaphore, l_semaphore, counters,
                   urls, bodies, repos, local_repos, emails, closed,
                   fetcher, decoder, decodeTask, cloner, cloneTask, extractor,
                   wg, aggs, mainPc, sigPc, log>>

\* Either select: <-ctx.Done(): return.
PushCancelled(k) ==
    /\ extractTask[k].st \in {"email", "context"}
    /\ cancelled
    /\ ExtractTaskExit(k)
    /\ UNCHANGED <<config, cancelled, panicked, counters, chans, fetcher,
                   decoder, decodeTask, cloner, cloneTask, extractor, aggs,
                   mainPc, sigPc, log>>

\* After both sends: total_data[GIT_IDENTITIES]++, then the next line.
CountIdentity(k) ==
    /\ extractTask[k].st = "count"
    /\ total_data' = AddUint32(total_data, GIT_IDENTITIES, 1)
    /\ IF extractTask[k].li = Len(ShortlogOutput(k[1], k[2]))
       THEN ExtractTaskComplete(k)
       ELSE /\ extractTask' = [extractTask EXCEPT ![k].st = "email",
                                                  ![k].li = @ + 1]
            /\ UNCHANGED <<completion_data, active_data, g_semaphore,
                           l_semaphore, wg>>
    /\ UNCHANGED <<config, cancelled, panicked, error_data, chans, fetcher,
                   decoder, decodeTask, cloner, cloneTask, extractor, aggs,
                   mainPc, sigPc, log>>

\* scanner.Err() is non-nil only for a line longer than the scanner's
\* 64 KiB buffer; the lines of ShortlogOutput are short, so that branch is
\* not taken.

(***************************************************************************)
(* Stages 5 and 6: emails_dedup and emails_by_repo.                        *)
(***************************************************************************)
\* if _, ok := emails_deduped[email]; !ok { emails_deduped[email] = 0 }
\* A fold that keeps only the email it has just received.
DedupKeepLast(m, email) == [e \in {email} |-> 0]

DedupFold(m, email) ==
    IF email \in DOMAIN m THEN m
    ELSE [e \in DOMAIN m \cup {email} |-> IF e = email THEN 0 ELSE m[e]]

\* A fold that stores the role it has just received in place of the OR.
GroupOverwrite(m, c) ==
    LET key == <<c.EmailAddress, c.Repo>>
    IN [x \in DOMAIN m \cup {key} |-> IF x = key THEN c.Role ELSE m[x]]

\* A fold that creates the key and leaves the role out.
GroupFoldNoRole(m, c) ==
    LET key == <<c.EmailAddress, c.Repo>>
    IN [x \in DOMAIN m \cup {key} |-> IF x \in DOMAIN m THEN m[x] ELSE 0]

\* emails_grouped[EmailGroupByRepoKey{Email, Repo}] |= context.Role; a
\* missing key reads as 0.
GroupFold(m, c) ==
    LET key == <<c.EmailAddress, c.Repo>>
        old == IF key \in DOMAIN m THEN m[key] ELSE 0
    IN [x \in DOMAIN m \cup {key} |->
           IF x = key THEN BitOr(old, c.Role) ELSE m[x]]

DedupRecv ==
    /\ ~done.dedup
    /\ emails # <<>>
    /\ emails' = Tail(emails)
    /\ emails_deduped' = DedupFold(emails_deduped, Head(emails))
    /\ completion_data' = AddUint32(completion_data, EMAILS_DEDUP, 1)
    /\ UNCHANGED <<config, cancelled, g_semaphore, l_semaphore, panicked,
                   active_data, total_data, error_data, urls, bodies, repos,
                   local_repos, context_emails, closed, procs, emails_grouped,
                   done, mainPc, sigPc, log, writers>>

\* The range over emails ends: close(done).
DedupDone ==
    /\ ~done.dedup
    /\ IsDrained("emails", emails)
    /\ done' = [done EXCEPT !.dedup = TRUE]
    /\ UNCHANGED <<config, cancelled, g_semaphore, l_semaphore, panicked,
                   counters, chans, procs, emails_deduped, emails_grouped,
                   mainPc, sigPc, log, writers>>

GroupRecv ==
    /\ ~done.group
    /\ context_emails # <<>>
    /\ context_emails' = Tail(context_emails)
    /\ emails_grouped' = GroupFold(emails_grouped, Head(context_emails))
    /\ completion_data' = AddUint32(completion_data, EMAILS_GROUPED, 1)
    /\ UNCHANGED <<config, cancelled, g_semaphore, l_semaphore, panicked,
                   active_data, total_data, error_data, urls, bodies, repos,
                   local_repos, emails, closed, procs, emails_deduped, done,
                   mainPc, sigPc, log, writers>>

\* The range over contexts ends: close(done).
GroupDone ==
    /\ ~done.group
    /\ IsDrained("context_emails", context_emails)
    /\ done' = [done EXCEPT !.group = TRUE]
    /\ UNCHANGED <<config, cancelled, g_semaphore, l_semaphore, panicked,
                   counters, chans, procs, emails_deduped, emails_grouped,
                   mainPc, sigPc, log, writers>>

(***************************************************************************)
(* main: the signal goroutine and the wait for the two done signals.       *)
(***************************************************************************)
\* case <-c: cancel()
Interrupt ==
    /\ sigPc = "listen"
    /\ ~cancelled
    /\ cancelled' = TRUE
    /\ sigPc' = "exit"
    /\ UNCHANGED <<config, g_semaphore, l_semaphore, panicked, counters,
                   chans, procs, aggs, mainPc, log>>

\* case <-email_list_done, case <-email_group_done: return
SignalExit ==
    /\ sigPc = "listen"
    /\ done.dedup \/ done.group
    /\ sigPc' = "exit"
    /\ UNCHANGED <<config, cancelled, g_semaphore, l_semaphore, panicked,
                   counters, chans, procs, aggs, mainPc, log>>

\* A main that goes on as soon as one of the two done signals has fired,
\* as if the loop that polls them were the whole wait.
MainJoinOnEither ==
    /\ mainPc = "wait"
    /\ done.dedup \/ done.group
    /\ cancelled' = TRUE
    /\ mainPc' = "write"
    /\ UNCHANGED <<config, g_semaphore, l_semaphore, panicked, counters,
                   chans, procs, aggs, sigPc, log>>

\* <-email_list_done; <-email_group_done; cancel(): the writers start.
MainJoin ==
    /\ mainPc = "wait"
    /\ done.dedup /\ done.group
    /\ cancelled' = TRUE
    /\ mainPc' = "write"
    /\ UNCHANGED <<config, g_semaphore, l_semaphore, panicked, counters,
                   chans, procs, aggs, sigPc, log>>

(***************************************************************************)
(* main after the join: one goroutine per output artifact, the list of     *)
(* emails (create_output_file) and the JSON of the grouped map             *)
(* (create_output_json), and the deferred out_files_wg.Wait().  A writer   *)
(* records its write_counter, the calls of ioutil.WriteFile it has made    *)
(* and the 100 ms sleeps it has taken.                                     *)
(***************************************************************************)
Artifacts == {"file", "json"}

\* if write_counter > 3 { return err }
WriteAttemptLimit == 3

WriterIdle == [pc |-> "none", write_counter |-> 0, calls |-> 0, sleeps |-> 0]

\* The map a writer is handed: emails_deduped or emails_grouped.
OutputMap(a) == IF a = "file" THEN emails_deduped ELSE emails_grouped

\* go func: if len(emails) == 0 { return }; otherwise the artifact's
\* function builds its bytes and sets write_counter to 1.
WriterStart(a) ==
    /\ mainPc = "write"
    /\ writers[a].pc = "none"
    /\ writers' =
           [writers EXCEPT ![a] =
               IF DOMAIN OutputMap(a) = {}
               THEN [@ EXCEPT !.pc = "skipped"]
               ELSE [@ EXCEPT !.pc = "write", !.write_counter = 1]]
    /\ UNCHANGED <<config, cancelled, g_semaphore, l_semaphore, panicked,
                   counters, chans, procs, emails_deduped, emails_grouped,
                   done, mainPc, sigPc, log>>

\* ioutil.WriteFile returns nil: break, return nil.
WriteOK(a) ==
    /\ writers[a].pc = "write"
    /\ writers' = [writers EXCEPT ![a].pc = "ok", ![a].calls = @ + 1]
    /\ UNCHANGED <<config, cancelled, g_semaphore, l_semaphore, panicked,
                   counters, chans, procs, emails_deduped, emails_grouped,
                   done, mainPc, sigPc, log>>

\* ioutil.WriteFile returns an error: if write_counter > 3 the function
\* returns it (the goroutine logs it), otherwise write_counter++ and the
\* sleep begins.
WriteError(a) ==
    /\ writers[a].pc = "write"
    /\ writers' =
           [writers EXCEPT ![a] =
               IF @.write_counter > WriteAttemptLimit
               THEN [@ EXCEPT !.pc = "failed", !.calls = @ + 1]
               ELSE [@ EXCEPT !.pc = "sleep", !.calls = @ + 1,
                              !.write_counter = @ + 1]]
    /\ log' = IF writers[a].write_counter > WriteAttemptLimit
              THEN log \cup {<<"write_failed", a>>}
              ELSE log
    /\ UNCHANGED <<config, cancelled, g_semaphore, l_semaphore, panicked,
                   counters, chans, procs, emails_deduped, emails_grouped,
                   done, mainPc, sigPc>>

\* time.Sleep(time.Millisecond * 100); continue
WriterWake(a) ==
    /\ writers[a].pc = "sleep"
    /\ writers' = [writers EXCEPT ![a].pc = "write", ![a].sleeps = @ + 1]
    /\ UNCHANGED <<config, cancelled, g_semaphore, l_semaphore, panicked,
                   counters, chans, procs, emails_deduped, emails_grouped,
                   done, mainPc, sigPc, log>>

WriterReturned(a) == writers[a].pc \in {"skipped", "ok", "failed"}

\* defer out_files_wg.Wait(): main returns when both writers have.
WritersJoin ==
    /\ mainPc = "write"
    /\ \A a \in Artifacts : WriterReturned(a)
    /\ mainPc' = "exit"
    /\ UNCHANGED <<config, cancelled, g_semaphore, l_semaphore, panicked,
                   counters, chans, procs, aggs, sigPc, log>>

(***************************************************************************)
(* The pipeline as main starts it.                                         *)
(***************************************************************************)
SizeFilters == {0, 2}

\* The state main builds before the first goroutine runs, for the listing
\* the endpoint serves from the page first on, a worker count drawn from
\* pool, a set of malformed pages drawn from broken, and the clones for
\* which "git shortlog" prints out.
StartWith(listing, no_fork, filter, pool, broken, first, out) ==
    /\ seed = first
    /\ workers \in pool
    /\ BUFFER_SIZE \in 1..MaxQueue
    /\ fork_filter = no_fork
    /\ size_filter = filter
    /\ pages = listing
    /\ malformed \in broken
    /\ std_out = out
    /\ cancelled = FALSE
    /\ g_semaphore = 0
    /\ l_semaphore = 0
    /\ panicked = FALSE
    /\ active_data = [i \in 0..3 |-> 0]
    /\ completion_data = [i \in 0..5 |-> 0]
    /\ total_data = [i \in 0..3 |-> 0]
    /\ error_data = [i \in 0..5 |-> 0]
    /\ urls = <<1>>
    /\ bodies = <<>>
    /\ repos = <<>>
    /\ local_repos = <<>>
    /\ emails = <<>>
    /\ context_emails = <<>>
    /\ closed = [q \in Queues |-> 0]
    /\ fetcher = [pc |-> "acquire", url |-> 0, fetch_counter |-> 0,
                  total_pages |-> 0, next_url |-> 0]
    /\ decoder = [pc |-> "select", body |-> 0]
    /\ decodeTask = [p \in 1..MaxPages |-> [st |-> "none", v |-> 0, i |-> 0]]
    /\ cloner = [pc |-> "select", repo |-> NoRepo]
    /\ cloneTask = [n \in RepoIds |-> [st |-> "none", repo |-> NoRepo]]
    /\ extractor = [pc |-> "select", repo |-> NoRepo, todo |-> {}, role |-> 0]
    /\ extractTask = [k \in RepoIds \X Roles |->
                         [st |-> "none", li |-> 0, sem |-> "-"]]
    /\ wg = [parse |-> 0, clone |-> 0, shortlog |-> 0]
    /\ emails_deduped = <<>>
    /\ emails_grouped = <<>>
    /\ done = [dedup |-> FALSE, group |-> FALSE]
    /\ mainPc = "wait"
    /\ sigPc = "listen"
    /\ log = {}
    /\ writers = [a \in Artifacts |-> WriterIdle]

\* The same over the clones of History.
StartAt(listing, no_fork, filter, pool, broken, first) ==
    StartWith(listing, no_fork, filter, pool, broken, first, Histories)

\* The same for a seed URL that names the first page of the listing.
Start(listing, no_fork, filter, pool, broken) ==
    StartAt(listing, no_fork, filter, pool, broken, 1)

OneRepo(i) == << Body(<<Repo(i)>>) >>

\* The runs explored with failures and interrupts: a listing of one
\* repository, under the settings that let it through and those that drop
\* it at either filter, the chains of pages, and two repositories behind a
\* single worker.
Scenarios ==
    { [listing |-> OneRepo(2), no_fork |-> FALSE, filter |-> 0,
       pool |-> 1..MaxWorkers],
      [listing |-> OneRepo(2), no_fork |-> FALSE, filter |-> 2,
       pool |-> 1..MaxWorkers],
      [listing |-> OneRepo(3), no_fork |-> FALSE, filter |-> 2,
       pool |-> 1..MaxWorkers],
      [listing |-> OneRepo(3), no_fork |-> TRUE, filter |-> 2,
       pool |-> 1..MaxWorkers],
      [listing |-> BareListing, no_fork |-> TRUE, filter |-> 2,
       pool |-> {1}] }
    \cup { [listing |-> EmptyChain(n), no_fork |-> FALSE, filter |-> 0,
            pool |-> 1..MaxWorkers] : n \in 2..MaxPages }

Init ==
    \E s \in Scenarios : Start(s.listing, s.no_fork, s.filter, s.pool, {{}})

\* The runs explored without failure or interrupt: every listing under
\* every setting of the two filters.
CleanInit ==
    \E listing \in {OneRepo(i) : i \in 1..3}
                   \cup {TwoRepoListing, BareListing}
                   \cup {EmptyChain(n) : n \in 2..MaxPages},
       no_fork \in BOOLEAN, filter \in SizeFilters :
        Start(listing, no_fork, filter, 1..MaxWorkers, {{}})

\* Two pages listing one repository without a commit each.
TwoPageListing == << Body(<<Repo(4)>>), Body(<<Repo(5)>>) >>

\* One page whose body holds two JSON values, each an empty array.
TwoValueListing == << << <<>>, <<>> >> >>

\* One page whose body holds no JSON value at all.
EmptyBodyListing == << <<>> >>

\* The runs explored with failures and no interrupt: two pages of which one
\* is malformed after its array, a body of two values, an empty body, two
\* repositories on one page behind a single worker, one repository with an
\* identity in both roles, and the chains of pages.
FailInit ==
    \/ Start(TwoPageListing, FALSE, 0, 1..MaxWorkers, {{1}, {2}})
    \/ Start(TwoValueListing, FALSE, 0, 1..MaxWorkers, {{}})
    \/ Start(EmptyBodyListing, FALSE, 0, 1..MaxWorkers, {{}})
    \/ Start(TwoRepoListing, FALSE, 0, {1}, {{}})
    \/ Start(OneRepo(3), FALSE, 2, 1..MaxWorkers, {{}})
    \/ \E n \in 2..MaxPages :
           Start(EmptyChain(n), FALSE, 0, 1..MaxWorkers, {{}})

\* Steps of a run in which nothing fails and nothing is cancelled.
Progress ==
    \/ FetcherAcquire \/ FetcherSelectUrl \/ FetcherResponse
    \/ FetcherPushBody \/ FetcherSendUrl
    \/ DecoderRecv \/ DecoderInputClosed \/ DecoderAcquire \/ DecoderClose
    \/ \E p \in 1..MaxPages : DecodeValue(p) \/ ForwardRepo(p) \/ CountRepo(p)
    \/ ClonerRecv \/ ClonerInputClosed \/ ClonerAcquire \/ ClonerClose
    \/ \E n \in RepoIds : CloneRunOK(n) \/ ClonePush(n) \/ CloneCount(n)
    \/ ExtractorRecv \/ ExtractorInputClosed \/ ExtractorAcquire
    \/ ExtractorClose
    \/ \E role \in Roles : ExtractorTryAcquire(role)
    \/ \E k \in RepoIds \X Roles :
           ShortlogRunOK(k) \/ PushEmail(k) \/ PushContext(k)
           \/ CountIdentity(k)
    \/ DedupRecv \/ DedupDone \/ GroupRecv \/ GroupDone
    \/ SignalExit \/ MainJoin

\* Failures of the network and of the git tool.
Failure ==
    \/ FetcherNewRequestError \/ FetcherRequestError
    \/ \E n \in RepoIds : CloneRunError(n)
    \/ \E k \in RepoIds \X Roles : ShortlogRunError(k)

\* What the goroutines do once the context is done.
React ==
    \/ FetcherAcquireCancelled \/ FetcherSelectCancelled
    \/ FetcherRequestCancelled \/ FetcherPushCancelled
    \/ DecoderCancelled \/ DecoderAcquireCancelled
    \/ \E p \in 1..MaxPages : DecodeCancelled(p) \/ ForwardCancelled(p)
    \/ ClonerCancelled \/ ClonerAcquireCancelled
    \/ \E n \in RepoIds : CloneKilled(n) \/ ClonePushCancelled(n)
    \/ ExtractorCancelled \/ ExtractorAcquireCancelled
    \/ \E k \in RepoIds \X Roles : ShortlogKilled(k) \/ PushCancelled(k)

\* The interrupt and the reactions to it.
Cancellation == Interrupt \/ React

Next == Progress \/ Failure \/ Cancellation

Spec == Init /\ [][Next]_vars

\* A run with no interrupt and no failure.
CleanSpec == CleanInit /\ [][Progress]_vars

\* A run with no interrupt, in which requests, bodies, clones and shortlog
\* runs may fail.
FailNext ==
    Progress \/ Failure \/ \E p \in 1..MaxPages : DecodeMalformed(p)

FailSpec == FailInit /\ [][FailNext]_vars

\* The walk of the Fetcher over chains of pages that list no repository,
\* from seed URLs that name page 1, 8 or 9, with no failure and no
\* interrupt: the Fetcher, the Decoder and the closing of the later stages.
SeedPages == {1, 8, 9}

PageInit ==
    \E n \in 1..MaxPages, first \in SeedPages :
        StartAt(EmptyChain(n), FALSE, 0, 1..MaxWorkers, {{}}, first)

PageNext ==
    \/ FetcherAcquire \/ FetcherSelectUrl \/ FetcherResponse
    \/ FetcherPushBody \/ FetcherSendUrl
    \/ DecoderRecv \/ DecoderInputClosed \/ DecoderAcquire \/ DecoderClose
    \/ \E p \in 1..MaxPages : DecodeValue(p)
    \/ ClonerInputClosed \/ ExtractorInputClosed
    \/ DedupDone \/ GroupDone
    \/ SignalExit \/ MainJoin

PageSpec == PageInit /\ [][PageNext]_vars

(***************************************************************************)
(* The scan of the output of "git shortlog": a clean run over repository 1 *)
(* whose author run prints up to MaxLines lines drawn from Lines and whose *)
(* committer run prints nothing or one line.                              *)
(***************************************************************************)
EmptyLine == <<>>
NoBracketLine == <<"7", "\t", "n">>
TwoBracketLine == <<"7", "\t", "<", " ", "<", "b", ">">>
Lines == {EmptyLine, NoBracketLine, TwoBracketLine, ShortlogLine(<<"a">>)}

Outputs ==
    {[k \in RepoIds \X Roles |->
         IF k = <<1, ROLE_AUTHOR>> THEN a
         ELSE IF k = <<1, ROLE_COMMITTER>> THEN c
         ELSE <<>>] :
        a \in [1..1 -> Lines] \cup [1..MaxLines -> Lines],
        c \in {<<>>, <<ShortlogLine(<<"a">>)>>}}

ScanInit ==
    \E out \in Outputs :
        StartWith(OneRepo(1), FALSE, 0, 1..MaxWorkers, {{}}, 1, out)

ScanNext ==
    \/ FetcherAcquire \/ FetcherSelectUrl \/ FetcherResponse
    \/ FetcherPushBody
    \/ DecoderRecv \/ DecoderInputClosed \/ DecoderAcquire \/ DecoderClose
    \/ \E p \in 1..MaxPages : DecodeValue(p) \/ ForwardRepo(p) \/ CountRepo(p)
    \/ ClonerRecv \/ ClonerInputClosed \/ ClonerAcquire \/ ClonerClose
    \/ \E n \in RepoIds : CloneRunOK(n) \/ ClonePush(n) \/ CloneCount(n)
    \/ ExtractorRecv \/ ExtractorInputClosed \/ ExtractorClose
    \/ \E role \in Roles : ExtractorTryAcquire(role)
    \/ \E k \in RepoIds \X Roles :
           ShortlogRunOK(k) \/ PushEmail(k) \/ PushContext(k)
           \/ CountIdentity(k)
    \/ DedupRecv \/ DedupDone \/ GroupRecv \/ GroupDone
    \/ SignalExit \/ MainJoin

ScanSpec == ScanInit /\ [][ScanNext]_vars

(***************************************************************************)
(* The two aggregators alone, from the point where Stage 4 has returned    *)
(* and closed its queues, fed with every sequence of at most MaxFeed       *)
(* emails and every sequence of at most MaxFeed associations.  What was    *)
(* fed is kept in log.                                                     *)
(***************************************************************************)
SeqsUpTo(S, n) == UNION {[1..k -> S] : k \in 0..n}

FeedEmails == {<<"a">>, <<"b">>}
FeedContexts == [Repo : {1, 2}, EmailAddress : {<<"a">>}, Role : Roles]

FoldInit ==
    /\ emails \in SeqsUpTo(FeedEmails, MaxFeed)
    /\ context_emails \in SeqsUpTo(FeedContexts, MaxFeed)
    /\ log = {<<"email", emails[i]>> : i \in 1..Len(emails)}
             \cup {<<"context", context_emails[i]>> :
                      i \in 1..Len(context_emails)}
    /\ workers = 1
    /\ BUFFER_SIZE = MaxFeed
    /\ fork_filter = FALSE
    /\ size_filter = 0
    /\ pages = << <<>> >>
    /\ malformed = {}
    /\ seed = 1
    /\ std_out = Histories
    /\ std_out = Histories
    /\ cancelled = FALSE
    /\ g_semaphore = 0
    /\ l_semaphore = 0
    /\ panicked = FALSE
    /\ active_data = [i \in 0..3 |-> 0]
    /\ completion_data = [i \in 0..5 |-> 0]
    /\ total_data = [i \in 0..3 |-> 0]
    /\ error_data = [i \in 0..5 |-> 0]
    /\ urls = <<>>
    /\ bodies = <<>>
    /\ repos = <<>>
    /\ local_repos = <<>>
    /\ closed = [q \in Queues |-> 1]
    /\ fetcher = [pc |-> "done", url |-> 1, fetch_counter |-> 1,
                  total_pages |-> 1, next_url |-> 0]
    /\ decoder = [pc |-> "done", body |-> 0]
    /\ decodeTask = [p \in 1..MaxPages |-> [st |-> "none", v |-> 0, i |-> 0]]
    /\ cloner = [pc |-> "done", repo |-> NoRepo]
    /\ cloneTask = [n \in RepoIds |-> [st |-> "none", repo |-> NoRepo]]
    /\ extractor = [pc |-> "done", repo |-> NoRepo, todo |-> {}, role |-> 0]
    /\ extractTask = [k \in RepoIds \X Roles |->
                         [st |-> "none", li |-> 0, sem |-> "-"]]
    /\ wg = [parse |-> 0, clone |-> 0, shortlog |-> 0]
    /\ emails_deduped = <<>>
    /\ emails_grouped = <<>>
    /\ done = [dedup |-> FALSE, group |-> FALSE]
    /\ mainPc = "wait"
    /\ sigPc = "listen"
    /\ writers = [a \in Artifacts |-> WriterIdle]

FoldNext ==
    \/ DedupRecv \/ DedupDone \/ GroupRecv \/ GroupDone
    \/ SignalExit \/ MainJoin

FoldSpec == FoldInit /\ [][FoldNext]_vars

(***************************************************************************)
(* The writers alone, from the point where main has passed both done       *)
(* signals and called cancel(), over every pair of an empty or filled      *)
(* list of emails and an empty or filled grouped map; every call of        *)
(* ioutil.WriteFile may fail or succeed.                                   *)
(***************************************************************************)
OutputLists ==
    {<<>>, DedupFold(<<>>, <<"a">>),
     DedupFold(DedupFold(<<>>, <<"a">>), <<"b">>)}

OutputGroups ==
    {<<>>} \cup {GroupFold(<<>>, c) : c \in FeedContexts}

WriteInit ==
    /\ emails_deduped \in OutputLists
    /\ emails_grouped \in OutputGroups
    /\ emails = <<>>
    /\ context_emails = <<>>
    /\ log = {}
    /\ workers = 1
    /\ BUFFER_SIZE = 1
    /\ fork_filter = FALSE
    /\ size_filter = 0
    /\ pages = << <<>> >>
    /\ malformed = {}
    /\ seed = 1
    /\ std_out = Histories
    /\ cancelled = TRUE
    /\ g_semaphore = 0
    /\ l_semaphore = 0
    /\ panicked = FALSE
    /\ active_data = [i \in 0..3 |-> 0]
    /\ completion_data = [i \in 0..5 |-> 0]
    /\ total_data = [i \in 0..3 |-> 0]
    /\ error_data = [i \in 0..5 |-> 0]
    /\ urls = <<>>
    /\ bodies = <<>>
    /\ repos = <<>>
    /\ local_repos = <<>>
    /\ closed = [q \in Queues |-> 1]
    /\ fetcher = [pc |-> "done", url |-> 1, fetch_counter |-> 1,
                  total_pages |-> 1, next_url |-> 0]
    /\ decoder = [pc |-> "done", body |-> 0]
    /\ decodeTask = [p \in 1..MaxPages |-> [st |-> "none", v |-> 0, i |-> 0]]
    /\ cloner = [pc |-> "done", repo |-> NoRepo]
    /\ cloneTask = [n \in RepoIds |-> [st |-> "none", repo |-> NoRepo]]
    /\ extractor = [pc |-> "done", repo |-> NoRepo, todo |-> {}, role |-> 0]
    /\ extractTask = [k \in RepoIds \X Roles |->
                         [st |-> "none", li |-> 0, sem |-> "-"]]
    /\ wg = [parse |-> 0, clone |-> 0, shortlog |-> 0]
    /\ done = [dedup |-> TRUE, group |-> TRUE]
    /\ mainPc = "write"
    /\ sigPc = "exit"
    /\ writers = [a \in Artifacts |-> WriterIdle]

WriteNext ==
    \/ \E a \in Artifacts :
          WriterStart(a) \/ WriteOK(a) \/ WriteError(a) \/ WriterWake(a)
    \/ WritersJoin

WriteSpec == WriteInit /\ [][WriteNext]_vars

\* The aggregators, main and the writers together: the aggregators fed with
\* at most one email and at most one association, main waiting for both,
\* then the writers.
JoinInit ==
    /\ FoldInit
    /\ Len(emails) <= 1
    /\ Len(context_emails) <= 1

JoinNext == FoldNext \/ WriteNext

JoinSpec == JoinInit /\ [][JoinNext]_vars

\* Scheduling: a goroutine that can take a step is eventually run, and a
\* request or subprocess in flight eventually returns.  Nothing obliges the
\* user to interrupt or an operation to fail.
Fairness == WF_vars(Progress \/ React)

\* The runs explored for liveness: the scenarios above, the listings of
\* repositories behind a single worker (the Fetcher then holds the only
\* permit for as long as it runs) and the chains of pages behind every
\* worker count.
LiveInit ==
    \E s \in Scenarios :
        Start(s.listing, s.no_fork, s.filter,
              IF Len(s.listing) = 1 THEN {1} ELSE s.pool, {{}})

LiveSpec == LiveInit /\ [][Next]_vars /\ Fairness

(***************************************************************************)
(* Vocabulary of the properties.                                           *)
(***************************************************************************)
\* Tasks of a stage that were spawned and have not returned.
DecodeRunning == {p \in 1..MaxPages : decodeTask[p].st \notin {"none", "done"}}
CloneRunning == {n \in RepoIds : cloneTask[n].st \notin {"none", "done"}}
ExtractRunning ==
    {k \in RepoIds \X Roles : extractTask[k].st \notin {"none", "done"}}

\* Every stage has returned and both aggregators have signalled done.
StagesDone ==
    /\ fetcher.pc = "done" /\ decoder.pc = "done"
    /\ cloner.pc = "done" /\ extractor.pc = "done"
    /\ done.dedup /\ done.group

AllClosed == \A q \in Queues : closed[q] = 1

(***************************************************************************)
(* C1: in every run, interrupted or not, no queue is closed twice, a       *)
(* queue is closed only once everything that sends on it has returned      *)
(* (the Fetcher for urls and bodies, the decode tasks for repos, the       *)
(* clone tasks for local_repos, the shortlog tasks for emails and          *)
(* context_emails), a stage that has returned has closed its queues, and   *)
(* no send or close has panicked.                                          *)
(***************************************************************************)
C1_ClosedOnceAfterJoin ==
    /\ \A q \in Queues : closed[q] <= 1
    /\ ~panicked
    /\ closed["urls"] > 0 \/ closed["bodies"] > 0 => fetcher.pc = "done"
    /\ closed["repos"] > 0 => DecodeRunning = {} /\ decoder.pc = "done"
    /\ closed["local_repos"] > 0 => CloneRunning = {} /\ cloner.pc = "done"
    /\ closed["emails"] > 0 \/ closed["context_emails"] > 0
           => ExtractRunning = {} /\ extractor.pc = "done"
    /\ fetcher.pc = "done" => closed["urls"] = 1 /\ closed["bodies"] = 1
    /\ decoder.pc = "done" => closed["repos"] = 1
    /\ cloner.pc = "done" => closed["local_repos"] = 1
    /\ extractor.pc = "done"
           => closed["emails"] = 1 /\ closed["context_emails"] = 1

\* An interrupted run in which a task of each of stages 2, 3 and 4 ran and
\* every queue has been closed.
C1_Witness ==
    /\ sigPc = "exit" /\ cancelled /\ mainPc = "wait"
    /\ AllClosed
    /\ \E p \in 1..MaxPages : decodeTask[p].st = "done"
    /\ \E n \in RepoIds : cloneTask[n].st = "done"
    /\ \E k \in RepoIds \X Roles : extractTask[k].st = "done"

(***************************************************************************)
(* C2: in a run with no interrupt and no failure, whatever the worker      *)
(* count and the queue size, the pipeline is never stuck: until every      *)
(* stage has closed its queues and both aggregators have signalled done,   *)
(* some goroutine can take a step.                                         *)
(***************************************************************************)
C2_NeverStuck == (StagesDone /\ AllClosed) \/ ENABLED Progress

(***************************************************************************)
(* C3: once the context is cancelled, in whatever state the pipeline is,   *)
(* every stage eventually returns with its queues closed and both          *)
(* aggregators eventually signal done.                                     *)
(***************************************************************************)
C3_CancelTerminates == cancelled ~> (StagesDone /\ AllClosed)

\* An interrupted run that has wound down leaving fetched pages undecoded.
C3_Witness ==
    /\ sigPc = "exit" /\ cancelled /\ mainPc = "wait"
    /\ StagesDone /\ AllClosed
    /\ bodies # <<>>
    /\ completion_data[GITHUB_FETCH] > completion_data[GITHUB_PARSE]

(***************************************************************************)
(* Outbound operations in flight: the HTTP request of the Fetcher, the     *)
(* clone subprocesses and the shortlog subprocesses, split by the limiter  *)
(* their task acquired from.                                               *)
(***************************************************************************)
RunningShared ==
    (IF fetcher.pc = "request" THEN 1 ELSE 0)
    + Cardinality({n \in RepoIds : cloneTask[n].st = "run"})
    + Cardinality({k \in RepoIds \X Roles :
                      extractTask[k].st = "run" /\ extractTask[k].sem = "g"})

RunningLocal ==
    Cardinality({k \in RepoIds \X Roles :
                    extractTask[k].st = "run" /\ extractTask[k].sem = "l"})

Running == RunningShared + RunningLocal

(***************************************************************************)
(* C4 as stated: at every moment the number of outbound operations in      *)
(* flight is at most the worker count.                                     *)
(***************************************************************************)
C4_AtMostWorkers == Running <= workers

(***************************************************************************)
(* C4, amended: at every moment at most workers operations run under a     *)
(* permit of the shared semaphore and at most two shortlog subprocesses    *)
(* run under a slot of the Extractor's own limiter, so at most workers + 2 *)
(* operations are in flight.                                               *)
(***************************************************************************)
C4_AtMostWorkersPlusLocal ==
    /\ RunningShared <= workers
    /\ RunningLocal <= LocalSlots
    /\ Running <= workers + LocalSlots

\* The bound is met: a clone under the only permit beside two shortlog
\* subprocesses under the local slots.
C4_Witness ==
    /\ Running = workers + LocalSlots
    /\ RunningLocal = LocalSlots
    /\ \E n \in RepoIds : cloneTask[n].st = "run"

(***************************************************************************)
(* C5: in a run with no failure and no interrupt over a chain of N pages,  *)
(* the Fetcher sends on bodies only bodies of pages of the chain, in page  *)
(* order and none twice, and when it has returned (its queues closed) it   *)
(* has sent exactly N bodies, one per page, the last being that of the     *)
(* page without a "next" link.                                             *)
(***************************************************************************)
C5_OneBodyPerPage ==
    /\ \A e \in BodiesSent : e[2] \in 1..numPages /\ e[3] = e[2]
    /\ Cardinality(BodiesSent) <= numPages
    /\ fetcher.pc = "done" \/ closed["bodies"] > 0 \/ closed["urls"] > 0
           => /\ {e[2] : e \in BodiesSent} = 1..numPages
              /\ Cardinality(BodiesSent) = numPages
              /\ fetcher.url = numPages

\* The Fetcher has returned from a chain of three pages or more.
C5_Witness ==
    /\ fetcher.pc = "done"
    /\ numPages >= 3
    /\ Cardinality(BodiesSent) = numPages
    /\ closed["bodies"] = 1 /\ closed["urls"] = 1

(***************************************************************************)
(* Where the records of the listing are.                                   *)
(***************************************************************************)
Range(q) == {q[i] : i \in 1..Len(q)}

\* The records the listing holds, by page, array and position.
Listed ==
    UNION {UNION {{<<p, v, i>> : i \in 1..Len(PageBody(p)[v])} :
                     v \in 1..Len(PageBody(p))} :
              p \in 1..numPages}

RecordAt(c) == PageBody(c[1])[c[2]][c[3]]

\* The positions the forwarding loop of a decode task has dealt with: the
\* arrays before the one it has in hand, and in that one the positions
\* before the record it is about to send (that record too once sent).
Handled ==
    {c \in Listed :
        LET t == decodeTask[c[1]]
        IN /\ t.st # "none"
           /\ \/ c[2] < t.v
              \/ /\ c[2] = t.v
                 /\ \/ t.i = 0
                    \/ c[3] < t.i
                    \/ c[3] = t.i /\ t.st = "sent"}

\* Names of the records that were sent on repos: those still queued, the
\* one the Cloner has in hand, those it skipped and those it gave to a
\* clone task.
ForwardedNames ==
    {r.Name : r \in Range(repos)}
    \cup ({cloner.repo.Name} \ {0})
    \cup {n \in RepoIds : cloneTask[n].st # "none"}
    \cup {n \in RepoIds : <<"size_skip", n>> \in log}

\* Names of the records present at or after the Cloner's output.
ExtractedNames ==
    {r.Name : r \in Range(local_repos)}
    \cup ({extractor.repo.Name} \ {0})
    \cup {n \in RepoIds : \E role \in Roles :
                              extractTask[<<n, role>>].st # "none"}
    \cup {c.Repo : c \in Range(context_emails)}
    \cup {key[2] : key \in DOMAIN emails_grouped}

\* The emails on the output lines of the shortlog runs of a repository.
EmailsOf(n, role) ==
    {ExtractEmail(ShortlogOutput(n, role)[i]) :
        i \in 1..Len(ShortlogOutput(n, role))}

(***************************************************************************)
(* C6: with the fork filter enabled, a record with fork = true is never    *)
(* sent on repos (a debug line is written instead), so it never reaches    *)
(* the Cloner, the Extractor or an aggregate; every other record the       *)
(* forwarding loop has dealt with, and with the filter disabled every      *)
(* record, was sent on repos, and the records on repos are those of the    *)
(* listing, unchanged.                                                     *)
(***************************************************************************)
C6_ForkFilter ==
    /\ \A r \in Range(repos) : r = Repo(r.Name)
    /\ \A c \in Handled :
           IF RecordAt(c).Fork /\ fork_filter
           THEN /\ <<"fork_skip", RecordAt(c).Name>> \in log
                /\ RecordAt(c).Name \notin ForwardedNames
           ELSE RecordAt(c).Name \in ForwardedNames
    /\ fork_filter =>
           /\ \A n \in ForwardedNames \cup ExtractedNames : ~Repo(n).Fork
           /\ \A e \in DOMAIN emails_deduped \cup Range(emails) :
                  \E c \in Listed, role \in Roles :
                      /\ ~RecordAt(c).Fork
                      /\ e \in EmailsOf(RecordAt(c).Name, role)

\* A run with the filter enabled has dropped the fork of the listing and
\* wound up with empty aggregates.
C6_Witness ==
    /\ fork_filter
    /\ \E c \in Handled : RecordAt(c).Fork
    /\ StagesDone /\ mainPc = "write"
    /\ emails_deduped = <<>> /\ emails_grouped = <<>>

(***************************************************************************)
(* C7: a record the Cloner received is skipped (logged, with no permit     *)
(* taken and no clone task started) exactly when the threshold is positive *)
(* and the record's size exceeds it: a record the Cloner went on to clone, *)
(* or holds while it waits for a permit, has a size at most the threshold  *)
(* or met a threshold of 0.                                                *)
(***************************************************************************)
C7_SizeFilter ==
    \A n \in RepoIds :
        LET over == size_filter > 0 /\ Repo(n).Size > size_filter
            skipped == <<"size_skip", n>> \in log
            taken == cloneTask[n].st # "none" \/ cloner.repo.Name = n
        IN /\ skipped => over /\ ~taken
           /\ taken => ~over /\ ~skipped
           /\ size_filter = 0 => ~skipped

\* A record whose size equals the threshold has been cloned.
C7_Witness ==
    \E n \in RepoIds :
        /\ size_filter > 0
        /\ Repo(n).Size = size_filter
        /\ cloneTask[n].st = "done"
        /\ n \notin CloneFailures
        /\ cloneTask[n].repo.local_path = LocalPath(Repo(n))

(***************************************************************************)
(* What was fed to the aggregators, and the OR of a set of role masks      *)
(* computed bit by bit.                                                    *)
(***************************************************************************)
EmailsFed == {x[2] : x \in {y \in log : y[1] = "email"}}
ContextsFed == {x[2] : x \in {y \in log : y[1] = "context"}}

HasBit(r, b) == (r \div b) % 2 = 1
RoleUnion(S) ==
    (IF \E r \in S : HasBit(r, ROLE_AUTHOR) THEN ROLE_AUTHOR ELSE 0)
    + (IF \E r \in S : HasBit(r, ROLE_COMMITTER) THEN ROLE_COMMITTER ELSE 0)

KeyOf(c) == <<c.EmailAddress, c.Repo>>

(***************************************************************************)
(* C8: whatever the order of the emails fed and however often an email is  *)
(* repeated, the emails folded so far together with those still queued     *)
(* are the distinct emails fed, and when the Deduplicator signals done its *)
(* set is exactly the set of distinct emails fed, of that size.            *)
(***************************************************************************)
C8_DedupIsSetOfFed ==
    /\ DOMAIN emails_deduped \cup Range(emails) = EmailsFed
    /\ done.dedup =>
           /\ emails = <<>>
           /\ DOMAIN emails_deduped = EmailsFed
           /\ Cardinality(DOMAIN emails_deduped) = Cardinality(EmailsFed)

\* A feed with a repeated email has been folded into a set of two.
C8_Witness ==
    /\ done.dedup
    /\ completion_data[EMAILS_DEDUP] > Cardinality(EmailsFed)
    /\ Cardinality(DOMAIN emails_deduped) = 2

(***************************************************************************)
(* C9: whatever the order of the associations fed and however often one is *)
(* repeated, when the Grouper signals done the map has one key per (email, *)
(* repository) pair fed and the value at a key is the OR of the roles of   *)
(* the associations fed with that key; before that, the value at a key     *)
(* OR-ed with the roles still queued for it is that OR.  Author and        *)
(* committer in either order give 3, and author twice gives 1.             *)
(***************************************************************************)
C9_GroupIsOrOfRoles ==
    /\ \A c \in ContextsFed :
           LET held == IF KeyOf(c) \in DOMAIN emails_grouped
                       THEN {emails_grouped[KeyOf(c)]} ELSE {}
               queued == {d.Role : d \in {x \in Range(context_emails) :
                                             KeyOf(x) = KeyOf(c)}}
               fed == {d.Role : d \in {x \in ContextsFed :
                                          KeyOf(x) = KeyOf(c)}}
           IN RoleUnion(held \cup queued) = RoleUnion(fed)
    /\ done.group =>
           /\ context_emails = <<>>
           /\ DOMAIN emails_grouped = {KeyOf(c) : c \in ContextsFed}
           /\ \A key \in DOMAIN emails_grouped :
                  /\ emails_grouped[key] =
                         RoleUnion({c.Role : c \in {x \in ContextsFed :
                                                       KeyOf(x) = key}})
                  /\ emails_grouped[key] \in
                         {ROLE_AUTHOR, ROLE_COMMITTER, ROLE_MASK_BOTH}
    /\ RoleUnion({ROLE_AUTHOR, ROLE_COMMITTER}) = 3
    /\ RoleUnion({ROLE_AUTHOR}) = 1

\* A feed of both roles for one key, one of them repeated, has been grouped
\* to the combined value.
C9_Witness ==
    /\ done.group
    /\ completion_data[EMAILS_GROUPED] > Cardinality(ContextsFed)
    /\ DOMAIN emails_grouped = {<< <<"a">>, 1 >>}
    /\ emails_grouped[<< <<"a">>, 1 >>] = ROLE_MASK_BOTH

(***************************************************************************)
(* What a run without failure or interrupt should end with: the records    *)
(* of the listing that pass both filters, and for each the emails its      *)
(* shortlog runs print between the brackets of a line.                     *)
(***************************************************************************)
Passing ==
    {RecordAt(c).Name :
        c \in {d \in Listed :
                  /\ ~(RecordAt(d).Fork /\ fork_filter)
                  /\ ~(size_filter > 0 /\ RecordAt(d).Size > size_filter)}}

LineEmails(n, role) ==
    {e \in FeedEmails : ShortlogLine(e) \in Range(ShortlogOutput(n, role))}

ExpectedKeys ==
    {key \in FeedEmails \X Passing :
        \E role \in Roles : key[1] \in LineEmails(key[2], role)}

(***************************************************************************)
(* C10: when a run with no failure and no interrupt has completed (main    *)
(* has both done signals), the dedup set is the set of emails on the       *)
(* shortlog lines of the repositories that passed both filters, and the    *)
(* grouped map has one key per (email, repository) pair so printed, its    *)
(* value the OR of the roles whose run printed the email.                  *)
(***************************************************************************)
C10_CleanRunAggregates ==
    mainPc = "write" =>
        /\ DOMAIN emails_deduped = {key[1] : key \in ExpectedKeys}
        /\ DOMAIN emails_grouped = ExpectedKeys
        /\ \A key \in ExpectedKeys :
               emails_grouped[key] =
                   RoleUnion({role \in Roles :
                                 key[1] \in LineEmails(key[2], role)})

\* Two repositories with one author-only email each: two emails, two keys,
\* each with the role author.
C10_Witness ==
    /\ mainPc = "write"
    /\ pages = TwoRepoListing
    /\ Cardinality(DOMAIN emails_deduped) = 2
    /\ Cardinality(DOMAIN emails_grouped) = 2
    /\ \A key \in DOMAIN emails_grouped : emails_grouped[key] = ROLE_AUTHOR

(***************************************************************************)
(* C11: in a run with no failure and no interrupt, a record whose size     *)
(* exceeds the active size filter adds exactly one to the completed        *)
(* counter of Stage 3 (the counter is the number of records skipped plus   *)
(* the number cloned) and nothing to its error counter, gets no clone      *)
(* task, is never on local_repos or beyond, and no email of the            *)
(* aggregates comes from it; a record under the threshold listed beside    *)
(* it is cloned and contributes its emails as if it were alone.            *)
(***************************************************************************)
SizeSkips == {n \in RepoIds : <<"size_skip", n>> \in log}

C11_SizeSkipFrame ==
    /\ \A n \in SizeSkips :
           /\ size_filter > 0 /\ Repo(n).Size > size_filter
           /\ cloneTask[n].st = "none"
           /\ n \notin ExtractedNames
    /\ completion_data[GIT_OPS_CLONE] =
           Cardinality(SizeSkips)
           + Cardinality({n \in RepoIds : cloneTask[n].st = "done"})
    /\ error_data[GIT_OPS_CLONE] = 0
    /\ \A e \in DOMAIN emails_deduped \cup Range(emails) :
           \E n \in RepoIds \ SizeSkips, role \in Roles :
               /\ extractTask[<<n, role>>].st # "none"
               /\ e \in EmailsOf(n, role)
    /\ mainPc = "write" =>
           \A n \in Passing :
               /\ cloneTask[n].st = "done"
               /\ cloneTask[n].repo.local_path = LocalPath(Repo(n))
               /\ n \in ExtractedNames
               /\ \A e \in FeedEmails, role \in Roles :
                      e \in LineEmails(n, role) =>
                          /\ e \in DOMAIN emails_deduped
                          /\ <<e, n>> \in DOMAIN emails_grouped
                          /\ HasBit(emails_grouped[<<e, n>>], role)

\* A large and a small repository listed together under a threshold
\* between their sizes: the run has ended with one skip, one clone and the
\* small one's email alone.
C11_Witness ==
    /\ mainPc = "write"
    /\ pages = TwoRepoListing
    /\ SizeSkips = {2}
    /\ cloneTask[1].st = "done"
    /\ completion_data[GIT_OPS_CLONE] = 2
    /\ DOMAIN emails_deduped = {<<"a">>}
    /\ DOMAIN emails_grouped = {<< <<"a">>, 1 >>}

(***************************************************************************)
(* C12: when both done signals have fired, which is when main goes on to   *)
(* write the artifacts and remove the working directory, the Fetcher has   *)
(* returned and no decode, clone or extraction task is between its spawn   *)
(* and its return, in interrupted runs as in the others.                   *)
(***************************************************************************)
C12_NothingRunningAtDone ==
    done.dedup /\ done.group =>
        /\ fetcher.pc = "done"
        /\ DecodeRunning = {}
        /\ CloneRunning = {}
        /\ ExtractRunning = {}

(***************************************************************************)
(* C13: in a run with failures and no interrupt, the Fetcher makes at most *)
(* 4 attempts at a URL; when the 4th has failed the error counter of       *)
(* Stage 1 is 1 and stays 1, its active counter is back to 0, the Fetcher  *)
(* has returned with urls and bodies closed, it has fetched exactly the    *)
(* pages before the one that failed and none after, and when the run has   *)
(* wound down every body it sent has been decoded and the records of       *)
(* those bodies forwarded.                                                 *)
(***************************************************************************)
FetchFailed == {e[2] : e \in {x \in log : x[1] = "fetch_failed"}}

C13_RetryExhaustion ==
    /\ fetcher.fetch_counter \in 0..MaxFetchAttempts
    /\ error_data[GITHUB_FETCH] <= 1
    /\ \A u \in FetchFailed :
           /\ FetchFailed = {u}
           /\ error_data[GITHUB_FETCH] = 1
           /\ active_data[GITHUB_FETCH] = 0
           /\ fetcher.pc = "done"
           /\ fetcher.url = u
           /\ fetcher.fetch_counter = MaxFetchAttempts
           /\ closed["urls"] = 1 /\ closed["bodies"] = 1
           /\ {e[2] : e \in BodiesSent} = 1..(u - 1)
           /\ completion_data[GITHUB_FETCH] = u - 1
           /\ StagesDone =>
                  /\ bodies = <<>>
                  /\ \A e \in BodiesSent : decodeTask[e[2]].st = "done"
                  /\ \A c \in Listed :
                         c[1] < u => /\ c \in Handled
                                     /\ RecordAt(c).Name \in ForwardedNames

\* The second page of a listing could not be fetched; the body of the
\* first has been decoded, its repository cloned, and the run has ended.
C13_Witness ==
    /\ FetchFailed = {2}
    /\ pages = TwoPageListing
    /\ mainPc = "write"
    /\ decodeTask[1].st = "done"
    /\ cloneTask[4].st = "done"
    /\ 4 \notin CloneFailures
    /\ error_data[GITHUB_FETCH] = 1

(***************************************************************************)
(* C14: once the Fetcher has used up its 4 attempts at a URL, the shared   *)
(* context is cancelled, as it is after an interrupt.                      *)
(***************************************************************************)
C14_ExhaustionCancels == FetchFailed # {} => cancelled

(***************************************************************************)
(* C15: in a run with failures and no interrupt, a clone that fails is     *)
(* not tried again (its task has returned and the record is neither        *)
(* queued nor held for a clone), adds exactly one to the error counter of  *)
(* Stage 3 and nothing to its completed counter, the record is nowhere     *)
(* from local_repos onward and no email of the aggregates comes from it;   *)
(* when the run has wound down every other record the Cloner received has  *)
(* been skipped by size or cloned, and the cloned ones extracted.          *)
(***************************************************************************)
C15_CloneFailureDrops ==
    /\ error_data[GIT_OPS_CLONE] = Cardinality(CloneFailures)
    /\ completion_data[GIT_OPS_CLONE] =
           Cardinality(SizeSkips)
           + Cardinality({n \in RepoIds \ CloneFailures :
                             cloneTask[n].st = "done"})
    /\ \A n \in CloneFailures :
           /\ cloneTask[n].st = "done"
           /\ cloner.repo.Name # n
           /\ \A r \in Range(repos) : r.Name # n
           /\ n \notin ExtractedNames
    /\ \A e \in DOMAIN emails_deduped \cup Range(emails) :
           \E n \in RepoIds \ CloneFailures, role \in Roles :
               /\ extractTask[<<n, role>>].st # "none"
               /\ e \in EmailsOf(n, role)
    /\ StagesDone =>
           \A n \in ForwardedNames \ (CloneFailures \cup SizeSkips) :
               /\ cloneTask[n].st = "done"
               /\ \A role \in Roles : extractTask[<<n, role>>].st = "done"

\* Of two repositories listed together the clone of the first failed; the
\* second was cloned after that and its email alone is in the aggregates.
C15_Witness ==
    /\ pages = TwoRepoListing
    /\ mainPc = "write"
    /\ CloneFailures = {1}
    /\ error_data[GIT_OPS_CLONE] = 1
    /\ completion_data[GIT_OPS_CLONE] = 1
    /\ DOMAIN emails_deduped = {<<"b">>}
    /\ DOMAIN emails_grouped = {<< <<"b">>, 2 >>}

(***************************************************************************)
(* C16: in a run with failures and no interrupt, a shortlog invocation     *)
(* that fails adds exactly one to the error counter of Stage 4 and nothing *)
(* to its completed counter, and emits nothing: no association carries its *)
(* repository and role and no value of the grouped map has its role bit    *)
(* for that repository, and every email queued or deduplicated comes from  *)
(* an invocation that did not fail.  The other invocation of the           *)
(* repository, and those of other repositories, are started all the same,  *)
(* and when the run has wound down each invocation that did not fail has   *)
(* every email of its output in both aggregates under its role.            *)
(***************************************************************************)
C16_ShortlogFailureIsolated ==
    /\ error_data[GIT_OPS_LOG] = Cardinality(ShortlogFailures)
    /\ completion_data[GIT_OPS_LOG] =
           Cardinality({k \in (RepoIds \X Roles) \ ShortlogFailures :
                           extractTask[k].st = "done"})
    /\ \A k \in ShortlogFailures :
           /\ extractTask[k].st = "done"
           /\ extractTask[k].li = 0
           /\ \A c \in Range(context_emails) :
                  ~(c.Repo = k[1] /\ c.Role = k[2])
           /\ \A key \in DOMAIN emails_grouped :
                  key[2] = k[1] => ~HasBit(emails_grouped[key], k[2])
    /\ \A e \in DOMAIN emails_deduped \cup Range(emails) :
           \E k \in (RepoIds \X Roles) \ ShortlogFailures :
               /\ extractTask[k].st # "none"
               /\ e \in EmailsOf(k[1], k[2])
    /\ StagesDone =>
           \A k \in RepoIds \X Roles :
               /\ extractTask[k].st # "none" =>
                      \A role \in Roles :
                          extractTask[<<k[1], role>>].st = "done"
               /\ extractTask[k].st # "none" /\ k \notin ShortlogFailures =>
                      \A e \in EmailsOf(k[1], k[2]) :
                          /\ e \in DOMAIN emails_deduped
                          /\ <<e, k[1]>> \in DOMAIN emails_grouped
                          /\ HasBit(emails_grouped[<<e, k[1]>>], k[2])

\* The author run of a repository failed and its committer run did not:
\* the email is in the aggregates, as committer only.
C16_Witness ==
    /\ pages = OneRepo(3)
    /\ mainPc = "write"
    /\ ShortlogFailures = {<<3, ROLE_AUTHOR>>}
    /\ error_data[GIT_OPS_LOG] = 1
    /\ completion_data[GIT_OPS_LOG] = 1
    /\ DOMAIN emails_deduped = {<<"a">>}
    /\ DOMAIN emails_grouped = {<< <<"a">>, 3 >>}
    /\ emails_grouped[<< <<"a">>, 3 >>] = ROLE_COMMITTER

(***************************************************************************)
(* C17: in a run with failures and no interrupt, a body that is malformed  *)
(* after its JSON values adds exactly one to the error counter of Stage 2  *)
(* and ends its own decode task only: the values decoded before the error  *)
(* are counted as completed and their records were forwarded, and when the *)
(* Decoder has returned it has done so on the close of bodies, with bodies *)
(* drained, every decode task finished, repos closed once, and every       *)
(* record of every body that was sent, malformed or not, forwarded.        *)
(***************************************************************************)
\* The values of the body of page p that its decode task has counted as
\* completed.
ValuesCompleted(p) ==
    IF decodeTask[p].st \in {"decode", "done"} THEN decodeTask[p].v
    ELSE IF decodeTask[p].st = "none" THEN 0
    ELSE decodeTask[p].v - 1

C17_MalformedBodyIsolated ==
    /\ ParseErrors \subseteq malformed
    /\ error_data[GITHUB_PARSE] = Cardinality(ParseErrors)
    /\ completion_data[GITHUB_PARSE] =
           Cardinality(UNION {{<<p, v>> : v \in 1..ValuesCompleted(p)} :
                                 p \in 1..numPages})
    /\ \A p \in ParseErrors :
           /\ decodeTask[p].st = "done"
           /\ ValuesCompleted(p) = Len(PageBody(p))
           /\ \A c \in Listed :
                  c[1] = p => RecordAt(c).Name \in ForwardedNames
    /\ decoder.pc = "done" =>
           /\ closed["bodies"] = 1 /\ bodies = <<>>
           /\ closed["repos"] = 1
           /\ DecodeRunning = {}
           /\ \A e \in BodiesSent :
                  /\ decodeTask[e[2]].st = "done"
                  /\ e[2] \in malformed <=> e[2] \in ParseErrors
                  /\ \A c \in Listed :
                         c[1] = e[2] => RecordAt(c).Name \in ForwardedNames

\* The first of two pages was malformed after its array: the error is
\* counted once, and the repositories of both pages have been cloned.
C17_Witness ==
    /\ pages = TwoPageListing
    /\ ParseErrors = {1}
    /\ mainPc = "write"
    /\ error_data[GITHUB_PARSE] = 1
    /\ completion_data[GITHUB_PARSE] = 2
    /\ cloneTask[4].st = "done" /\ cloneTask[5].st = "done"
    /\ CloneFailures = {}

(***************************************************************************)
(* The output queue of each of stages 2, 3 and 4 is closed only if the     *)
(* stage's input queue is closed and empty: the queues close in stage      *)
(* order and nothing is left behind on an input queue.                     *)
(***************************************************************************)
ClosedInStageOrder ==
    /\ closed["repos"] > 0 => closed["bodies"] > 0 /\ bodies = <<>>
    /\ closed["local_repos"] > 0 => closed["repos"] > 0 /\ repos = <<>>
    /\ closed["emails"] > 0 \/ closed["context_emails"] > 0
           => closed["local_repos"] > 0 /\ local_repos = <<>>

FetcherBlocked == fetcher.pc = "push" /\ ~CanSend("bodies", bodies)

DecodeBlocked ==
    {p \in 1..MaxPages :
        decodeTask[p].st = "fwd" /\ ~CanSend("repos", repos)}

CloneBlocked ==
    {n \in RepoIds :
        cloneTask[n].st = "push" /\ ~CanSend("local_repos", local_repos)}

ExtractBlocked ==
    {k \in RepoIds \X Roles :
        /\ extractTask[k].sem = "g"
        /\ \/ extractTask[k].st = "email" /\ ~CanSend("emails", emails)
           \/ /\ extractTask[k].st = "context"
              /\ ~CanSend("context_emails", context_emails)}

C19_NoPermitWhileBlocked ==
    /\ ~FetcherBlocked
    /\ DecodeBlocked = {}
    /\ CloneBlocked = {}
    /\ ExtractBlocked = {}

(***************************************************************************)
(* C20: a writer that gives up (every write failed) has called             *)
(* ioutil.WriteFile exactly three times, with a 100 ms pause between       *)
(* consecutive attempts (two pauses), for either artifact.                 *)
(***************************************************************************)
C20_ThreeWrites ==
    \A a \in Artifacts :
        writers[a].pc = "failed" =>
            writers[a].calls = 3 /\ writers[a].sleeps = 2

(***************************************************************************)
(* Holders of a permit: the Fetcher from its Acquire to its return, and a  *)
(* decode, clone or extraction task from its spawn to its return, split by *)
(* the limiter the permit came from.                                       *)
(***************************************************************************)
SharedHolders ==
    (IF fetcher.pc \in {"select", "request", "push", "sendurl"}
     THEN 1 ELSE 0)
    + Cardinality(DecodeRunning)
    + Cardinality(CloneRunning)
    + Cardinality({k \in ExtractRunning : extractTask[k].sem = "g"})

LocalHolders ==
    Cardinality({k \in ExtractRunning : extractTask[k].sem = "l"})

(***************************************************************************)
(* C21: at every moment at most 2 extraction tasks hold a slot of the      *)
(* local limiter and at most workers tasks hold a permit of the shared     *)
(* semaphore, so at most workers + 2 tasks hold a permit and no more       *)
(* outbound operations than that are running; each limiter's count is the  *)
(* number of its holders, so that every task gives its permit back to the  *)
(* limiter it took it from.                                                *)
(***************************************************************************)
C21_PermitsPerLimiter ==
    /\ LocalHolders <= LocalSlots
    /\ SharedHolders <= workers
    /\ SharedHolders + LocalHolders <= workers + LocalSlots
    /\ Running <= SharedHolders + LocalHolders
    /\ l_semaphore = LocalHolders
    /\ g_semaphore = SharedHolders

\* Both limiters are full while an extraction task that was handed the
\* shared semaphore has already returned its permit.
C21_Witness ==
    /\ LocalHolders = LocalSlots
    /\ SharedHolders = workers
    /\ \E k \in RepoIds \X Roles :
           extractTask[k].st = "done" /\ extractTask[k].sem = "g"

(***************************************************************************)
(* C22: the send of the "next" URL on the Fetcher's own work queue never   *)
(* blocks.  In every state the URLs queued plus the URL the Fetcher has    *)
(* popped and not finished with are at most one, so the queue holds at     *)
(* most one URL and is empty (and open) whenever the Fetcher is about to   *)
(* send on it.                                                             *)
(***************************************************************************)
UrlInHand == IF fetcher.pc \in {"request", "push", "sendurl"} THEN 1 ELSE 0

C22_WorkQueueNeverBlocks ==
    /\ Len(urls) + UrlInHand <= 1
    /\ fetcher.pc = "sendurl" =>
           /\ Len(urls) < BUFFER_SIZE
           /\ closed["urls"] = 0

\* The Fetcher has sent the URL of page 2 on its work queue and is back at
\* its select.
C22_Witness ==
    /\ urls = <<2>>
    /\ fetcher.pc = "select"
    /\ fetcher.next_url = 2
    /\ <<"body", 1, 1>> \in log

(***************************************************************************)
(* C23: the total page count is recorded once.  From the first response    *)
(* on, the Stage 1 total counter is the page number of the "last" link of  *)
(* the chain (1 for a listing of a single page, which carries no           *)
(* pagination link), whatever later responses say.                         *)
(***************************************************************************)
\* The page number the "last" link of the chain names.
LastPageNumber == IF numPages = 1 THEN 1 ELSE PageNumber(numPages)

C23_TotalRecordedOnce ==
    completion_data[GITHUB_FETCH] >= 1 =>
        total_data[GITHUB_TOTAL_PAGES] = LastPageNumber

(***************************************************************************)
(* C24: in every state every value stored in the grouped map is 1          *)
(* (author), 2 (committer) or 3 (both), never 0, so that the lookup table  *)
(* of create_output_json has a label for it.                               *)
(***************************************************************************)
\* role_reference of create_output_json.
role_reference ==
    (ROLE_AUTHOR :> "Author") @@ (ROLE_COMMITTER :> "Committer")
    @@ (ROLE_MASK_BOTH :> "Author+Committer")

C24_RolesHaveLabels ==
    \A key \in DOMAIN emails_grouped :
        /\ emails_grouped[key] \in {1, 2, 3}
        /\ emails_grouped[key] \in DOMAIN role_reference

\* The map holds a key whose value went from one role to both.
C24_Witness ==
    \E key \in DOMAIN emails_grouped :
        /\ emails_grouped[key] = ROLE_MASK_BOTH
        /\ completion_data[EMAILS_GROUPED] = 2

(***************************************************************************)
(* C25: in every state the active counter of each of stages 1 to 4 counts  *)
(* units in flight and has not wrapped: it is never below zero and never   *)
(* above the number of the stage's units that have started and not         *)
(* returned (for Stage 1 it is 1 exactly while a request is out), also for *)
(* a body of more than one JSON value and for a valid array followed by    *)
(* malformed data.                                                         *)
(***************************************************************************)
\* Tasks of the stage whose active counter is at index i that were spawned
\* and have not returned.
InFlight(i) ==
    IF i = GITHUB_FETCH THEN (IF fetcher.pc = "request" THEN 1 ELSE 0)
    ELSE IF i = GITHUB_PARSE THEN Cardinality(DecodeRunning)
    ELSE IF i = GIT_OPS_CLONE THEN Cardinality(CloneRunning)
    ELSE Cardinality(ExtractRunning)

C25_ActiveCountsInFlight ==
    /\ active_data[GITHUB_FETCH] = InFlight(GITHUB_FETCH)
    /\ \A i \in {GITHUB_PARSE, GIT_OPS_CLONE, GIT_OPS_LOG} :
           0 <= active_data[i] /\ active_data[i] <= InFlight(i)

(***************************************************************************)
(* C26: once a stage has terminated, that is once its output queue is      *)
(* closed, the active counter of the stage is 0, in cancelled runs too.    *)
(***************************************************************************)
\* The output queue whose close marks the end of the stage with the active
\* counter at index i.
OutputOf(i) ==
    IF i = GITHUB_FETCH THEN "bodies"
    ELSE IF i = GITHUB_PARSE THEN "repos"
    ELSE IF i = GIT_OPS_CLONE THEN "local_repos"
    ELSE "emails"

C26_IdleOnceTerminated ==
    \A i \in {GITHUB_FETCH, GITHUB_PARSE, GIT_OPS_CLONE, GIT_OPS_LOG} :
        closed[OutputOf(i)] > 0 => active_data[i] = 0

(***************************************************************************)
(* C27: when a run in which nobody interrupts has completed (both          *)
(* aggregators have signalled done), the counters balance: Stage 3         *)
(* completed + error is the total of remote repositories, Stage 4          *)
(* completed + error is the total of extraction units, which is 2 per      *)
(* record forwarded by Stage 3, and the completed counts of the            *)
(* Deduplicator and of the Grouper are each the total of identities.       *)
(***************************************************************************)
C27_CountersBalance ==
    done.dedup /\ done.group =>
        /\ completion_data[GIT_OPS_CLONE] + error_data[GIT_OPS_CLONE]
               = total_data[REMOTE_REPOS]
        /\ completion_data[GIT_OPS_LOG] + error_data[GIT_OPS_LOG]
               = total_data[LOCAL_REPOS]
        /\ total_data[LOCAL_REPOS] = 2 * Cardinality(ExtractedNames)
        /\ completion_data[EMAILS_DEDUP] = total_data[GIT_IDENTITIES]
        /\ completion_data[EMAILS_GROUPED] = total_data[GIT_IDENTITIES]

\* A completed run of two repositories in which one clone failed, one
\* shortlog run of the other failed and one identity was found.
C27_Witness ==
    /\ done.dedup /\ done.group
    /\ total_data[REMOTE_REPOS] = 2
    /\ error_data[GIT_OPS_CLONE] = 1
    /\ error_data[GIT_OPS_LOG] = 1
    /\ total_data[GIT_IDENTITIES] = 1

(***************************************************************************)
(* C28: in every state work has been counted as discovered before it is    *)
(* counted as handled: Stage 3 active + completed + error is at most the   *)
(* total of remote repositories, Stage 4 active + completed + error at     *)
(* most the total of extraction units, and the completed counts of the     *)
(* Deduplicator and of the Grouper at most the total of identities.        *)
(***************************************************************************)
\* Units Stage 3 and Stage 4 have taken up.
Handled3 ==
    active_data[GIT_OPS_CLONE] + completion_data[GIT_OPS_CLONE]
    + error_data[GIT_OPS_CLONE]

Handled4 ==
    active_data[GIT_OPS_LOG] + completion_data[GIT_OPS_LOG]
    + error_data[GIT_OPS_LOG]

C28_DiscoveredBeforeHandled ==
    /\ Handled3 <= total_data[REMOTE_REPOS]
    /\ Handled4 <= total_data[LOCAL_REPOS]
    /\ completion_data[EMAILS_DEDUP] <= total_data[GIT_IDENTITIES]
    /\ completion_data[EMAILS_GROUPED] <= total_data[GIT_IDENTITIES]

(***************************************************************************)
(* C28, amended: a producer sends a unit first and counts it afterwards,   *)
(* so a total can lag, by no more than the units sent and not yet counted: *)
(* in every state Stage 3 active + completed + error is at most the total  *)
(* of remote repositories plus the records sent and not yet counted,       *)
(* Stage 4 active + completed + error at most the total of extraction      *)
(* units plus 2 per cloned record sent and not yet counted, and, while the *)
(* context is not cancelled, the completed count of each aggregator at     *)
(* most the total of identities plus the identities whose email, or whose  *)
(* email and association, are sent and not yet counted.                    *)
(***************************************************************************)
\* Decode tasks between repos <- repo and the increment of the total.
ReposUncounted ==
    Cardinality({p \in 1..MaxPages : decodeTask[p].st = "sent"})

\* Clone tasks between local_repos <- repo and the increment of the total.
ClonesUncounted == Cardinality({n \in RepoIds : cloneTask[n].st = "sent"})

\* Extraction tasks that have sent the email of the line they are at, and
\* those that have sent its association too.
EmailsUncounted ==
    Cardinality({k \in RepoIds \X Roles :
                    extractTask[k].st \in {"context", "count"}})

ContextsUncounted ==
    Cardinality({k \in RepoIds \X Roles : extractTask[k].st = "count"})

C28_TotalsLagBySends ==
    /\ Handled3 <= total_data[REMOTE_REPOS] + ReposUncounted
    /\ Handled4 <= total_data[LOCAL_REPOS] + 2 * ClonesUncounted
    /\ ~cancelled =>
           /\ completion_data[EMAILS_DEDUP]
                  <= total_data[GIT_IDENTITIES] + EmailsUncounted
           /\ completion_data[EMAILS_GROUPED]
                  <= total_data[GIT_IDENTITIES] + ContextsUncounted

\* The lag at its largest: a clone is running for a record that the decode
\* task has sent and not yet counted.
C28_Witness ==
    /\ ReposUncounted = 1
    /\ Handled3 = total_data[REMOTE_REPOS] + 1
    /\ active_data[GIT_OPS_CLONE] = 1

(***************************************************************************)
(* C29: the two maps are never read by a writer while they can still be    *)
(* written.  In every step that ends with a writer started, both           *)
(* aggregators have signalled done, their input queues are closed and      *)
(* empty, and neither map is changed by the step.                          *)
(***************************************************************************)
WriterStarted == \E a \in Artifacts : writers[a].pc # "none"

C29_MapsFrozenForWriters ==
    [][WriterStarted' =>
          /\ done.dedup /\ done.group
          /\ emails = <<>> /\ closed["emails"] > 0
          /\ context_emails = <<>> /\ closed["context_emails"] > 0
          /\ emails_deduped' = emails_deduped
          /\ emails_grouped' = emails_grouped]_vars

\* Both artifacts were written from maps that were filled in this run.
C29_Witness ==
    /\ writers["file"].pc = "ok"
    /\ writers["json"].pc = "ok"
    /\ completion_data[EMAILS_DEDUP] = 1
    /\ completion_data[EMAILS_GROUPED] = 1
    /\ mainPc = "exit"

(***************************************************************************)
(* C30 as stated: when both aggregators have signalled done, in every run, *)
(* an email is in the dedup set if and only if it is the email of a key of *)
(* the grouped map.                                                        *)
(***************************************************************************)
\* The emails of the keys of the grouped map.
GroupedEmails == {key[1] : key \in DOMAIN emails_grouped}

C30_AggregatesAgree ==
    done.dedup /\ done.group => DOMAIN emails_deduped = GroupedEmails

(***************************************************************************)
(* C30, amended: when both aggregators have signalled done, the email of   *)
(* every key of the grouped map is in the dedup set, in every run; the     *)
(* dedup set holds nothing else when the run got there without the context *)
(* being cancelled.                                                        *)
(***************************************************************************)
C30_GroupedWithinDedup ==
    done.dedup /\ done.group =>
        /\ GroupedEmails \subseteq DOMAIN emails_deduped
        /\ ~cancelled => DOMAIN emails_deduped = GroupedEmails

\* An interrupted run of the repository with one identity in both roles
\* that ended with the author's association aggregated and the committer's
\* run cut after it had started to scan.
C30_Witness ==
    /\ done.dedup /\ done.group
    /\ cancelled /\ mainPc = "wait"
    /\ \E key \in DOMAIN emails_grouped : emails_grouped[key] = ROLE_AUTHOR
    /\ extractTask[<<3, ROLE_COMMITTER>>].st = "done"
    /\ <<3, ROLE_COMMITTER>> \notin ShortlogFailures

(***************************************************************************)
(* Permits over one step.  The Fetcher holds a permit from its Acquire to  *)
(* its return; a task holds the permit its dispatcher acquired for it from *)
(* its spawn to its return.                                                *)
(***************************************************************************)
FetcherHolds == fetcher.pc \in {"select", "request", "push", "sendurl"}

\* The step gives one permit back to the shared semaphore and none to the
\* local limiter, or the other way round.
ReleasesShared ==
    g_semaphore' = g_semaphore - 1 /\ l_semaphore' = l_semaphore
ReleasesLocal ==
    l_semaphore' = l_semaphore - 1 /\ g_semaphore' = g_semaphore

\* Every return of a holder releases its permit to the limiter it came
\* from, with the task leaving its wait group in the same return; what has
\* returned never runs again, and a Fetcher whose Acquire failed releases
\* nothing.
ReleaseOnReturn ==
    /\ (FetcherHolds /\ fetcher'.pc = "done") => ReleasesShared
    /\ (fetcher.pc = "acquire" /\ fetcher'.pc = "done") =>
           (g_semaphore' = g_semaphore /\ l_semaphore' = l_semaphore)
    /\ fetcher.pc = "done" => fetcher'.pc = "done"
    /\ \A p \in DOMAIN decodeTask :
           /\ (p \in DecodeRunning /\ decodeTask'[p].st = "done") =>
                  (ReleasesShared /\ wg'.parse = wg.parse - 1)
           /\ decodeTask[p].st = "done" => decodeTask'[p].st = "done"
    /\ \A n \in DOMAIN cloneTask :
           /\ (n \in CloneRunning /\ cloneTask'[n].st = "done") =>
                  (ReleasesShared /\ wg'.clone = wg.clone - 1)
           /\ cloneTask[n].st = "done" => cloneTask'[n].st = "done"
    /\ \A k \in DOMAIN extractTask :
           /\ (k \in ExtractRunning /\ extractTask'[k].st = "done") =>
                  /\ IF extractTask[k].sem = "l"
                     THEN ReleasesLocal ELSE ReleasesShared
                  /\ wg'.shortlog = wg.shortlog - 1
           /\ extractTask[k].st = "done" => extractTask'[k].st = "done"

\* The four stage goroutines have returned.
StagesReturned ==
    /\ fetcher.pc = "done" /\ decoder.pc = "done"
    /\ cloner.pc = "done" /\ extractor.pc = "done"

\* A wait group counts the tasks of its stage that have not returned, so a
\* task that is joined has released; with the four stages returned no
\* permit of either limiter is held.
PermitsFreeWhenJoined ==
    /\ wg.parse = Cardinality(DecodeRunning)
    /\ wg.clone = Cardinality(CloneRunning)
    /\ wg.shortlog = Cardinality(ExtractRunning)
    /\ StagesReturned => (g_semaphore = 0 /\ l_semaphore = 0)

(***************************************************************************)
(* C31: permits are conserved.  Every holder of a permit of the shared     *)
(* semaphore or of the Extractor's local limiter gives it back exactly     *)
(* once, in the step in which it returns, on every path (success, failure, *)
(* cancellation) and to the limiter it was taken from; a task has released *)
(* by the time its wait group no longer counts it; so whenever the four    *)
(* stages have returned all permits are free.                              *)
(***************************************************************************)
C31_PermitsConserved ==
    [](PermitsFreeWhenJoined) /\ [][ReleaseOnReturn]_vars

\* An interrupted run has wound down with every permit free after one
\* shortlog ran to its end and another failed, one of the tasks having
\* run on a permit of the shared semaphore.
C31_Witness ==
    /\ StagesReturned /\ cancelled
    /\ g_semaphore = 0 /\ l_semaphore = 0
    /\ ShortlogFailures # {}
    /\ completion_data[GIT_OPS_LOG] > 0
    /\ \E k \in DOMAIN extractTask :
           extractTask[k].st = "done" /\ extractTask[k].sem = "g"

(***************************************************************************)
(* The email of a line as the specification words it: what stands between  *)
(* the last "<" of the line and the ">" that closes it, and the empty      *)
(* string for a line that has no such pair.                                *)
(***************************************************************************)
Between(line) ==
    LET opens == {i \in 1..Len(line) : line[i] = "<"}
    IN IF opens = {} THEN <<>>
       ELSE LET o == CHOOSE i \in opens : \A j \in opens : j <= i
                closes == {i \in (o + 1)..Len(line) : line[i] = ">"}
            IN IF closes = {} THEN <<>>
               ELSE SubSeq(line, o + 1,
                           (CHOOSE i \in closes :
                                \A j \in closes : i <= j) - 1)

\* One step of the scan of a task: the lines are taken in their order from
\* the first, and each line is sent once on emails and then once, with the
\* repository and the role of the run, on context_emails, as the email
\* between its brackets.
EmitsLine ==
    \A k \in DOMAIN extractTask :
        LET t == extractTask[k]
            u == extractTask'[k]
            out == ShortlogOutput(k[1], k[2])
        IN /\ (t.st = "run" /\ u.st # "run") =>
                  \/ out = <<>> /\ u.st = "done"
                  \/ out # <<>> /\ u.st = "email" /\ u.li = 1
           /\ t.st = "email" =>
                  \/ u = t
                  \/ /\ u.st = "context" /\ u.li = t.li
                     /\ emails' = Append(emails, Between(out[t.li]))
           /\ t.st = "context" =>
                  \/ u = t
                  \/ /\ u.st = "count" /\ u.li = t.li
                     /\ context_emails' =
                            Append(context_emails,
                                   [Repo |-> k[1],
                                    EmailAddress |-> Between(out[t.li]),
                                    Role |-> k[2]])
           /\ t.st = "count" =>
                  \/ u = t
                  \/ t.li < Len(out) /\ u.st = "email" /\ u.li = t.li + 1
                  \/ t.li = Len(out) /\ u.st = "done"

(***************************************************************************)
(* C32: for every line of the output of a shortlog run, an empty line and  *)
(* a line without "<" included, the Extractor sends as email exactly what  *)
(* stands between the last "<" and the closing ">" of the line, once on    *)
(* emails and once on context_emails with the role of the run, and takes   *)
(* the lines of one output in their order; no line makes it panic.         *)
(***************************************************************************)
C32_EveryLineEmitted == [](~panicked) /\ [][EmitsLine]_vars

=============================================================================
